---- MODULE Spec2Model ----
(***************************************************************************)
(* Sales dashboard (manojeluri/dynamic-dashboard): the load sequence of    *)
(* Dashboard.loadData (company mapper, manifest, enrichment), the          *)
(* Dashboard filters and the aggregation functions of dataLoader.ts.       *)
(*                                                                         *)
(* Representation.                                                         *)
(*  - A JavaScript string that the code normalises (an item name, a CSV    *)
(*    line) is a sequence of one-character strings, so that toLowerCase    *)
(*    and trim are computed.  Company names and tags are TLA+ strings.     *)
(*  - A JavaScript Map is a sequence of [key, value] entries in insertion  *)
(*    order (Map iteration order).                                         *)
(*  - An ISO date "2025-12-0n" is the integer n: zero-padded ISO strings   *)
(*    compare as their day numbers do.  A date state that may be the empty *)
(*    string is <<>> or <<n>>.                                             *)
(*  - Quantities and amounts are integers (exact arithmetic).              *)
(***************************************************************************)
EXTENDS Integers, Sequences, FiniteSets, TLC

\* ------------------------------------------------------------------------
\* Bounds and input domains
\* ------------------------------------------------------------------------

\* Records loaded per run, over all spreadsheet files.
MaxRecords == 2

\* The company files the mapper loads (the first two of the code's list).
COMPANIES == <<"Syngenta", "Coramandel">>

\* data-manifest.json: one descriptor per spreadsheet file.
Manifest == << [type |-> "PS", date |-> 1], [type |-> "FS", date |-> 2] >>

\* Item names as they stand in the spreadsheets.
RawNames == { <<"a">>, <<"A", " ">>, <<"b">> }

\* The number cells of a row; a cell is <<>> when it is empty, else <<n>>.
RawCells == { [QTY |-> <<>>, TAXBLEAMT |-> <<1>>],
              [QTY |-> <<1>>, TAXBLEAMT |-> <<2>>] }

\* The rows sheet_to_json may give.
RawRows ==
  { [ITNAME |-> n, QTY |-> c.QTY, TAXBLEAMT |-> c.TAXBLEAMT] :
      n \in RawNames, c \in RawCells }

\* The text of a company's product file, split in lines.  Line 1 is the
\* header, here one that reads like a product name.
CsvTexts ==
  { << <<"b">>, <<"A", " ">> >>,
    << <<"b">>, <<" ">>, <<" ", "b">> >> }

Undefined == "undefined"

\* ------------------------------------------------------------------------
\* Strings
\* ------------------------------------------------------------------------

LowerChar(c) == CASE c = "A" -> "a" [] c = "B" -> "b" [] OTHER -> c

toLowerCase(s) == [i \in 1..Len(s) |-> LowerChar(s[i])]

RECURSIVE trimStart(_)
trimStart(s) == IF s # <<>> /\ Head(s) = " " THEN trimStart(Tail(s)) ELSE s

RECURSIVE trimEnd(_)
trimEnd(s) ==
  IF s # <<>> /\ s[Len(s)] = " " THEN trimEnd(SubSeq(s, 1, Len(s) - 1)) ELSE s

trim(s) == trimEnd(trimStart(s))

\* ------------------------------------------------------------------------
\* JavaScript Map
\* ------------------------------------------------------------------------

MapHas(m, k) == \E i \in 1..Len(m) : m[i].key = k

MapIndex(m, k) == CHOOSE i \in 1..Len(m) : m[i].key = k

MapGet(m, k) == m[MapIndex(m, k)].value

MapSet(m, k, v) ==
  IF MapHas(m, k)
  THEN [m EXCEPT ![MapIndex(m, k)] = [key |-> k, value |-> v]]
  ELSE Append(m, [key |-> k, value |-> v])

MapKeys(m) == [i \in 1..Len(m) |-> m[i].key]

Range(s) == { s[i] : i \in 1..Len(s) }

RECURSIVE SumSeq(_)
SumSeq(s) == IF s = <<>> THEN 0 ELSE Head(s) + SumSeq(Tail(s))

\* ------------------------------------------------------------------------
\* CompanyMapper (companyMapper.ts)
\* ------------------------------------------------------------------------

normalizeProductName(name) == trim(toLowerCase(name))

\* The mapper's two maps as one value.
EmptyMapper == [productToCompany |-> <<>>, companyProducts |-> <<>>]

\* One iteration of parseCSV's loop.
parseLine(mapper, line, companyName) ==
  LET productName == trim(line) IN
  IF productName = <<>> THEN mapper
  ELSE
    LET normalizedProduct == normalizeProductName(productName)
        had == IF MapHas(mapper.companyProducts, companyName)
               THEN MapGet(mapper.companyProducts, companyName)
               ELSE {}
    IN [productToCompany |->
          MapSet(mapper.productToCompany, normalizedProduct, companyName),
        companyProducts |->
          MapSet(mapper.companyProducts, companyName,
                 had \cup {normalizedProduct})]

RECURSIVE parseLines(_, _, _, _)
parseLines(mapper, lines, i, companyName) ==
  IF i > Len(lines) THEN mapper
  ELSE parseLines(parseLine(mapper, lines[i], companyName), lines, i + 1,
                  companyName)

\* The loop starts at 1 in the code, the second line: the header is skipped.
parseCSV(mapper, csvText, companyName) ==
  parseLines(mapper, csvText, 2, companyName)

\* The lookup without the normalisation of the name looked up.
getCompanyForProduct_Raw(mapper, productName) ==
  IF MapHas(mapper.productToCompany, productName)
  THEN MapGet(mapper.productToCompany, productName)
  ELSE Undefined

getCompanyForProduct(mapper, productName) ==
  LET normalized == normalizeProductName(productName) IN
  IF MapHas(mapper.productToCompany, normalized)
  THEN MapGet(mapper.productToCompany, normalized)
  ELSE Undefined

\* ------------------------------------------------------------------------
\* dataLoader.ts: building a batch from a spreadsheet
\* ------------------------------------------------------------------------

\* Number(cell) || 0
NumberOr0(cell) == IF cell = <<>> THEN 0 ELSE cell[1]

\* One row of sheet_to_json as a SalesRecord; the sheets carry no HSNCODE or
\* GST cell, and a new record has no company.
toSalesRecord(row) ==
  [HSNCODE |-> <<>>,
   ITNAME |-> row.ITNAME,
   QTY |-> NumberOr0(row.QTY),
   TAXBLEAMT |-> NumberOr0(row.TAXBLEAMT),
   GST |-> 0,
   company |-> Undefined]

SumAmount(records) == SumSeq([i \in 1..Len(records) |-> records[i].TAXBLEAMT])

SumQty(records) == SumSeq([i \in 1..Len(records) |-> records[i].QTY])

\* The batch loadXLSFile returns for a sheet it could read.
loadXLSFile(rows, type, date) ==
  LET records == [i \in 1..Len(rows) |-> toSalesRecord(rows[i])] IN
  [date |-> date,
   type |-> type,
   records |-> records,
   totalAmount |-> SumAmount(records),
   totalQuantity |-> SumQty(records)]

\* A collection that gives up on the whole list when one load returned null.
collectResults_AllOrNothing(loaded) ==
  IF \E i \in 1..Len(loaded) : loaded[i] = <<>> THEN <<>>
  ELSE [i \in 1..Len(loaded) |-> loaded[i][1]]

\* results.forEach of loadAllDataFromManifest: the batches that are not null,
\* in the order of the results array.  An entry is <<>> for null, else <<batch>>.
RECURSIVE collectResults(_)
collectResults(loaded) ==
  IF loaded = <<>> THEN <<>>
  ELSE IF Head(loaded) # <<>>
       THEN <<Head(loaded)[1]>> \o collectResults(Tail(loaded))
       ELSE collectResults(Tail(loaded))

\* ------------------------------------------------------------------------
\* dataLoader.ts: aggregation
\* ------------------------------------------------------------------------

\* The records of all batches in iteration order, each with its batch's date
\* and type.
RECURSIVE FlatRecords(_)
FlatRecords(salesData) ==
  IF salesData = <<>> THEN <<>>
  ELSE [i \in 1..Len(Head(salesData).records) |->
          [record |-> Head(salesData).records[i],
           date |-> Head(salesData).date,
           type |-> Head(salesData).type]]
       \o FlatRecords(Tail(salesData))

\* a / b of JavaScript numbers: den = 0 stands for NaN (num = 0) or Infinity.
Divide(a, b) == [num |-> a, den |-> b]

\* Array.prototype.sort, which is stable, for a comparator that is the
\* difference of two integer keys: keys[i] is the key of s[i], and the result
\* is in ascending order of the keys.
RECURSIVE InsertSorted(_, _)
InsertSorted(sorted, e) ==
  IF sorted = <<>> THEN <<e>>
  ELSE IF e.key < Head(sorted).key THEN <<e>> \o sorted
       ELSE <<Head(sorted)>> \o InsertSorted(Tail(sorted), e)

RECURSIVE SortKeyed(_)
SortKeyed(s) ==
  IF s = <<>> THEN <<>>
  ELSE InsertSorted(SortKeyed(SubSeq(s, 1, Len(s) - 1)), s[Len(s)])

StableSort(s, keys) ==
  LET sorted == SortKeyed([i \in 1..Len(s) |-> [item |-> s[i], key |-> keys[i]]])
  IN [i \in 1..Len(s) |-> sorted[i].item]

\* .sort((a, b) => b.totalAmount - a.totalAmount)
SortByAmountDesc(s) == StableSort(s, [i \in 1..Len(s) |-> 0 - s[i].totalAmount])

\* The key under which a record is grouped by aggregateByProduct,
\* aggregateByCompany's product maps, aggregateByProductWithCompany,
\* calculateProductVelocity and prepareProductTimeSeries: record.ITNAME as it
\* stands.
productKey(record) == record.ITNAME

\* productMapOf with a set that forgets the running totals: each record
\* overwrites its product's entry.
RECURSIVE productMapOf_Overwrite(_, _, _)
productMapOf_Overwrite(productMap, flat, i) ==
  IF i > Len(flat) THEN productMap
  ELSE productMapOf_Overwrite(
         MapSet(productMap, productKey(flat[i].record),
                [qty |-> flat[i].record.QTY, amount |-> flat[i].record.TAXBLEAMT]),
         flat, i + 1)

\* The forEach loops of aggregateByProduct over flat[i..].
RECURSIVE productMapOf(_, _, _)
productMapOf(productMap, flat, i) ==
  IF i > Len(flat) THEN productMap
  ELSE
    LET record == flat[i].record
        existing == IF MapHas(productMap, productKey(record))
                    THEN MapGet(productMap, productKey(record))
                    ELSE [qty |-> 0, amount |-> 0]
    IN productMapOf(MapSet(productMap, productKey(record),
                           [qty |-> existing.qty + record.QTY,
                            amount |-> existing.amount + record.TAXBLEAMT]),
                    flat, i + 1)

aggregateByProduct(salesData) ==
  LET productMap == productMapOf(<<>>, FlatRecords(salesData), 1)
      entries == [i \in 1..Len(productMap) |->
                    [productName |-> productMap[i].key,
                     totalQty |-> productMap[i].value.qty,
                     totalAmount |-> productMap[i].value.amount,
                     avgPrice |-> Divide(productMap[i].value.amount,
                                         productMap[i].value.qty)]]
  IN SortByAmountDesc(entries)

aggregateByDate(salesData) ==
  \* .sort((a, b) => a.date.localeCompare(b.date))
  StableSort([i \in 1..Len(salesData) |->
                [date |-> salesData[i].date,
                 type |-> salesData[i].type,
                 amount |-> salesData[i].totalAmount,
                 quantity |-> salesData[i].totalQuantity]],
             [i \in 1..Len(salesData) |-> salesData[i].date])

getTotalSales(salesData) ==
  SumSeq([i \in 1..Len(salesData) |-> salesData[i].totalAmount])

getTotalQuantity(salesData) ==
  SumSeq([i \in 1..Len(salesData) |-> salesData[i].totalQuantity])

\* ------------------------------------------------------------------------
\* dataLoader.ts: company enrichment and the company views
\* ------------------------------------------------------------------------

\* An enrichment that takes the company off a record that already has one.
enrichRecord_Untag(record, mapper) ==
  LET company == getCompanyForProduct(mapper, record.ITNAME) IN
  IF record.company # Undefined THEN [record EXCEPT !.company = Undefined]
  ELSE IF company # Undefined THEN [record EXCEPT !.company = company]
       ELSE record

\* The body of enrichWithCompanyData's inner loop, on one record.
enrichRecord(record, mapper) ==
  LET company == getCompanyForProduct(mapper, record.ITNAME) IN
  IF company # Undefined THEN [record EXCEPT !.company = company] ELSE record

\* An enrichment that stops after the first batch.
enrichWithCompanyData_FirstBatchOnly(salesData, mapper) ==
  [b \in 1..Len(salesData) |->
     IF b > 1 THEN salesData[b]
     ELSE [salesData[b] EXCEPT !.records =
             [r \in 1..Len(salesData[b].records) |->
                enrichRecord(salesData[b].records[r], mapper)]]]

\* enrichWithCompanyData mutates the records in place: the value is the batch
\* list as it stands when the call returns.
enrichWithCompanyData(salesData, mapper) ==
  [b \in 1..Len(salesData) |->
     [salesData[b] EXCEPT !.records =
        [r \in 1..Len(salesData[b].records) |->
           enrichRecord(salesData[b].records[r], mapper)]]]

\* record.company || 'Unknown'
companyOrUnknown(record) ==
  IF record.company # Undefined THEN record.company ELSE "Unknown"

\* companyMapOf that skips the records without a company instead of filing
\* them under "Unknown".
RECURSIVE companyMapOf_SkipUnknown(_, _, _)
companyMapOf_SkipUnknown(companyMap, flat, i) ==
  IF i > Len(flat) THEN companyMap
  ELSE
    LET record == flat[i].record
        companyData == IF MapHas(companyMap, record.company)
                       THEN MapGet(companyMap, record.company)
                       ELSE [amount |-> 0, qty |-> 0, products |-> <<>>]
        productData == IF MapHas(companyData.products, productKey(record))
                       THEN MapGet(companyData.products, productKey(record))
                       ELSE [qty |-> 0, amount |-> 0]
    IN companyMapOf_SkipUnknown(
         IF record.company = Undefined THEN companyMap
         ELSE MapSet(companyMap, record.company,
                     [amount |-> companyData.amount + record.TAXBLEAMT,
                      qty |-> companyData.qty + record.QTY,
                      products |->
                        MapSet(companyData.products, productKey(record),
                               [qty |-> productData.qty + record.QTY,
                                amount |-> productData.amount + record.TAXBLEAMT])]),
         flat, i + 1)

\* The forEach loops of aggregateByCompany over flat[i..].
RECURSIVE companyMapOf(_, _, _)
companyMapOf(companyMap, flat, i) ==
  IF i > Len(flat) THEN companyMap
  ELSE
    LET record == flat[i].record
        company == companyOrUnknown(record)
        companyData == IF MapHas(companyMap, company)
                       THEN MapGet(companyMap, company)
                       ELSE [amount |-> 0, qty |-> 0, products |-> <<>>]
        productData == IF MapHas(companyData.products, productKey(record))
                       THEN MapGet(companyData.products, productKey(record))
                       ELSE [qty |-> 0, amount |-> 0]
    IN companyMapOf(
         MapSet(companyMap, company,
                [amount |-> companyData.amount + record.TAXBLEAMT,
                 qty |-> companyData.qty + record.QTY,
                 products |->
                   MapSet(companyData.products, productKey(record),
                          [qty |-> productData.qty + record.QTY,
                           amount |-> productData.amount + record.TAXBLEAMT])]),
         flat, i + 1)

aggregateByCompany(salesData) ==
  LET companyMap == companyMapOf(<<>>, FlatRecords(salesData), 1)
      productsOf(companyName, data) ==
        [j \in 1..Len(data.products) |->
           [productName |-> data.products[j].key,
            totalQty |-> data.products[j].value.qty,
            totalAmount |-> data.products[j].value.amount,
            avgPrice |-> Divide(data.products[j].value.amount,
                                data.products[j].value.qty),
            company |-> companyName]]
      entries == [i \in 1..Len(companyMap) |->
                    [companyName |-> companyMap[i].key,
                     totalAmount |-> companyMap[i].value.amount,
                     totalQuantity |-> companyMap[i].value.qty,
                     productCount |-> Len(companyMap[i].value.products),
                     products |-> SortByAmountDesc(
                       productsOf(companyMap[i].key, companyMap[i].value))]]
  IN SortByAmountDesc(entries)

\* .slice(0, limit)
Slice0(s, limit) == SubSeq(s, 1, IF limit < Len(s) THEN limit ELSE Len(s))

getTopCompanies(salesData, limit) == Slice0(aggregateByCompany(salesData), limit)

\* The forEach loops of aggregateByProductWithCompany over flat[i..].
RECURSIVE productCompanyMapOf(_, _, _)
productCompanyMapOf(productMap, flat, i) ==
  IF i > Len(flat) THEN productMap
  ELSE
    LET record == flat[i].record
        existing == IF MapHas(productMap, productKey(record))
                    THEN MapGet(productMap, productKey(record))
                    ELSE [qty |-> 0, amount |-> 0, company |-> record.company]
    IN productCompanyMapOf(
         MapSet(productMap, productKey(record),
                [qty |-> existing.qty + record.QTY,
                 amount |-> existing.amount + record.TAXBLEAMT,
                 company |-> IF record.company # Undefined
                             THEN record.company ELSE existing.company]),
         flat, i + 1)

aggregateByProductWithCompany(salesData) ==
  LET productMap == productCompanyMapOf(<<>>, FlatRecords(salesData), 1)
      entries == [i \in 1..Len(productMap) |->
                    [productName |-> productMap[i].key,
                     totalQty |-> productMap[i].value.qty,
                     totalAmount |-> productMap[i].value.amount,
                     avgPrice |-> Divide(productMap[i].value.amount,
                                         productMap[i].value.qty),
                     company |-> productMap[i].value.company]]
  IN SortByAmountDesc(entries)

\* ------------------------------------------------------------------------
\* velocityAnalysis: the accumulation of calculateProductVelocity
\* ------------------------------------------------------------------------

\* The accumulation with one entry of `dates` per record instead of per date.
RECURSIVE velocityMapOf_PerRecord(_, _, _)
velocityMapOf_PerRecord(productMap, flat, i) ==
  IF i > Len(flat) THEN productMap
  ELSE
    LET record == flat[i].record
        existing == IF MapHas(productMap, productKey(record))
                    THEN MapGet(productMap, productKey(record))
                    ELSE [qty |-> 0, amount |-> 0, dates |-> {},
                          company |-> record.company]
    IN velocityMapOf_PerRecord(
         MapSet(productMap, productKey(record),
                [qty |-> existing.qty + record.QTY,
                 amount |-> existing.amount + record.TAXBLEAMT,
                 dates |-> existing.dates \cup {<<flat[i].date, i>>},
                 company |-> IF record.company # Undefined
                             THEN record.company ELSE existing.company]),
         flat, i + 1)

\* The forEach loops of calculateProductVelocity over flat[i..]: the product
\* map before the velocities are computed.
RECURSIVE velocityMapOf(_, _, _)
velocityMapOf(productMap, flat, i) ==
  IF i > Len(flat) THEN productMap
  ELSE
    LET record == flat[i].record
        existing == IF MapHas(productMap, productKey(record))
                    THEN MapGet(productMap, productKey(record))
                    ELSE [qty |-> 0, amount |-> 0, dates |-> {},
                          company |-> record.company]
    IN velocityMapOf(
         MapSet(productMap, productKey(record),
                [qty |-> existing.qty + record.QTY,
                 amount |-> existing.amount + record.TAXBLEAMT,
                 dates |-> existing.dates \cup {flat[i].date},
                 company |-> IF record.company # Undefined
                             THEN record.company ELSE existing.company]),
         flat, i + 1)

velocityProductMap(salesData) == velocityMapOf(<<>>, FlatRecords(salesData), 1)

\* JavaScript numbers that are quotients are kept as [num, den] with den > 0.
Times(a, k) == [num |-> a.num * k, den |-> a.den]

Minus(a, b) == [num |-> a.num * b.den - b.num * a.den, den |-> a.den * b.den]

Quotient(a, b) == [num |-> a.num * b.den, den |-> a.den * b.num]

NumEq(a, b) == a.num * b.den = b.num * a.den

NumLess(a, b) == a.num * b.den < b.num * a.den

Zero == [num |-> 0, den |-> 1]

Whole(n) == [num |-> n, den |-> 1]

RECURSIVE ProductOfDens(_)
ProductOfDens(s) ==
  IF s = <<>> THEN 1 ELSE Head(s).dailyVelocity.den * ProductOfDens(Tail(s))

\* The metrics left in the order of the product map.
SortByVelocityDesc_Unsorted(s) == s

\* velocityMetrics.sort((a, b) => b.dailyVelocity - a.dailyVelocity)
SortByVelocityDesc(s) ==
  LET common == ProductOfDens(s) IN
  StableSort(s, [i \in 1..Len(s) |->
                   0 - s[i].dailyVelocity.num * (common \div s[i].dailyVelocity.den)])

\* Math.ceil(total * 0.33) and Math.ceil(total * 0.67)
fastThreshold(total) == (33 * total + 99) \div 100

mediumThreshold(total) == (67 * total + 99) \div 100

\* The classification with the bands counted from the bottom of the array.
classifyByIndex_FromBottom(index, total) ==
  IF index < fastThreshold(total) THEN "slow"
  ELSE IF index < mediumThreshold(total) THEN "medium"
       ELSE "fast"

\* The classification calculateProductVelocity gives the metric at an index
\* (from 0) of the sorted array.
classifyByIndex(index, total) ==
  IF index < fastThreshold(total) THEN "fast"
  ELSE IF index < mediumThreshold(total) THEN "medium"
       ELSE "slow"

calculateProductVelocity(salesData) ==
  LET productMap == velocityProductMap(salesData)
      velocityMetrics ==
        [i \in 1..Len(productMap) |->
           LET data == productMap[i].value
               daysActive == Cardinality(data.dates)
               dailyVelocity == IF daysActive > 0 THEN Divide(data.qty, daysActive)
                                ELSE Zero
           IN [productName |-> productMap[i].key,
               company |-> data.company,
               totalQty |-> data.qty,
               totalAmount |-> data.amount,
               daysActive |-> daysActive,
               dailyVelocity |-> dailyVelocity,
               weeklyVelocity |-> Times(dailyVelocity, 7),
               classification |-> "medium",
               rank |-> 0]]
      sorted == SortByVelocityDesc(velocityMetrics)
      total == Len(sorted)
  IN [i \in 1..total |->
        [sorted[i] EXCEPT !.rank = i,
                          !.classification = classifyByIndex(i - 1, total)]]

getVelocityDistribution(velocityMetrics) ==
  [fast |-> Len(SelectSeq(velocityMetrics, LAMBDA v : v.classification = "fast")),
   medium |-> Len(SelectSeq(velocityMetrics, LAMBDA v : v.classification = "medium")),
   slow |-> Len(SelectSeq(velocityMetrics, LAMBDA v : v.classification = "slow"))]

\* ------------------------------------------------------------------------
\* forecastingUtils: the time series and the summary's first forecast
\* ------------------------------------------------------------------------

\* The accumulation in which a record replaces the day's totals of its product.
RECURSIVE seriesMapOf_LastRecord(_, _, _)
seriesMapOf_LastRecord(productMap, flat, i) ==
  IF i > Len(flat) THEN productMap
  ELSE
    LET record == flat[i].record
        product == IF MapHas(productMap, productKey(record))
                   THEN MapGet(productMap, productKey(record))
                   ELSE [company |-> record.company, dailyData |-> <<>>]
    IN seriesMapOf_LastRecord(
         MapSet(productMap, productKey(record),
                [product EXCEPT !.dailyData =
                   MapSet(product.dailyData, flat[i].date,
                          [quantity |-> record.QTY, revenue |-> record.TAXBLEAMT])]),
         flat, i + 1)

\* Step 1 of prepareProductTimeSeries over flat[i..]: per product, the company
\* of its first record and a Map from date to the day's totals.
RECURSIVE seriesMapOf(_, _, _)
seriesMapOf(productMap, flat, i) ==
  IF i > Len(flat) THEN productMap
  ELSE
    LET record == flat[i].record
        product == IF MapHas(productMap, productKey(record))
                   THEN MapGet(productMap, productKey(record))
                   ELSE [company |-> record.company, dailyData |-> <<>>]
        existing == IF MapHas(product.dailyData, flat[i].date)
                    THEN MapGet(product.dailyData, flat[i].date)
                    ELSE [quantity |-> 0, revenue |-> 0]
    IN seriesMapOf(
         MapSet(productMap, productKey(record),
                [product EXCEPT !.dailyData =
                   MapSet(product.dailyData, flat[i].date,
                          [quantity |-> existing.quantity + record.QTY,
                           revenue |-> existing.revenue + record.TAXBLEAMT])]),
         flat, i + 1)

\* Array.from(new Set(salesData.map(d => d.date))).sort()
RECURSIVE SortedSet(_)
SortedSet(S) ==
  IF S = {} THEN <<>>
  ELSE LET m == CHOOSE x \in S : \A y \in S : x <= y
       IN <<m>> \o SortedSet(S \ {m})

allDatesOf(salesData) ==
  SortedSet({ salesData[i].date : i \in 1..Len(salesData) })

prepareProductTimeSeries(salesData, topN) ==
  LET productMap == seriesMapOf(<<>>, FlatRecords(salesData), 1)
      productTotals ==
        [i \in 1..Len(productMap) |->
           [name |-> productMap[i].key,
            totalRevenue |->
              SumSeq([j \in 1..Len(productMap[i].value.dailyData) |->
                        productMap[i].value.dailyData[j].value.revenue])]]
      \* productTotals.sort((a, b) => b.totalRevenue - a.totalRevenue)
      sortedTotals ==
        StableSort(productTotals,
                   [i \in 1..Len(productTotals) |-> 0 - productTotals[i].totalRevenue])
      top == Slice0(sortedTotals, topN)
      topProductNames == { top[i].name : i \in 1..Len(top) }
      allDates == allDatesOf(salesData)
      series(entry) ==
        [productName |-> entry.key,
         company |-> entry.value.company,
         dailyData |->
           [d \in 1..Len(allDates) |->
              LET dayData == IF MapHas(entry.value.dailyData, allDates[d])
                             THEN MapGet(entry.value.dailyData, allDates[d])
                             ELSE [quantity |-> 0, revenue |-> 0]
              IN [date |-> allDates[d],
                  quantity |-> dayData.quantity,
                  revenue |-> dayData.revenue]]]
      kept == SelectSeq(productMap, LAMBDA e : e.key \in topProductNames)
  IN [i \in 1..Len(kept) |-> series(kept[i])]

\* generateForecastSummary reads productForecasts[0].oneDayForecast: with no
\* series there is no first forecast and the read throws a TypeError.  The
\* summary's numbers are not part of this value.
generateForecastSummary(salesData, topN) ==
  LET timeSeries == prepareProductTimeSeries(salesData, topN)
      allDates == allDatesOf(salesData)
  IN IF timeSeries = <<>>
     THEN [threw |-> TRUE, products |-> <<>>, totalHistoricalDays |-> 0]
     ELSE [threw |-> FALSE,
           products |-> [i \in 1..Len(timeSeries) |-> timeSeries[i].productName],
           totalHistoricalDays |-> Len(allDates)]

\* ------------------------------------------------------------------------
\* velocityAnalysis: splitDataByPeriod and compareVelocityPeriods
\* ------------------------------------------------------------------------

\* A Date is an instant, in hours from the start of day 0 in UTC; new Date of
\* an ISO date string is the start of that day in UTC.  The browser's time
\* zone is [before, after, at]: its offset from UTC in hours before and from
\* the instant `at` on (a daylight-saving change when the two differ).
NewDate(day) == 24 * day

offsetAt(tz, t) == IF t < tz.at THEN tz.before ELSE tz.after

\* Date.prototype.getDate: the day of the instant in local time.
getDate(tz, t) == (t + offsetAt(tz, t)) \div 24

\* The instant of a local time.
FromLocal(tz, local) ==
  IF local - tz.before < tz.at THEN local - tz.before ELSE local - tz.after

\* Date.prototype.setDate: the local day changes, the local time of day stays.
setDate(tz, t, day) == FromLocal(tz, 24 * day + ((t + offsetAt(tz, t)) % 24))

\* toISOString().split('T')[0]: the day of the instant in UTC.
toISODate(t) == t \div 24

periodDaysOf(periodType) == IF periodType = "week" THEN 7 ELSE 30

splitDataByPeriod(salesData, periodType, tz) ==
  IF salesData = <<>> THEN [current |-> <<>>, previous |-> <<>>]
  ELSE
    LET dates == SortedSet({ salesData[i].date : i \in 1..Len(salesData) })
        latest == dates[Len(dates)]
        latestDate == NewDate(latest)
        periodDays == periodDaysOf(periodType)
        currentStart == setDate(tz, latestDate, getDate(tz, latestDate) - (periodDays - 1))
        currentStartStr == toISODate(currentStart)
        previousEnd == setDate(tz, currentStart, getDate(tz, currentStart) - 1)
        previousEndStr == toISODate(previousEnd)
        previousStart == setDate(tz, previousEnd, getDate(tz, previousEnd) - (periodDays - 1))
        previousStartStr == toISODate(previousStart)
    IN [current |-> SelectSeq(salesData, LAMBDA d :
                      d.date >= currentStartStr /\ d.date <= latest),
        previous |-> SelectSeq(salesData, LAMBDA d :
                       d.date >= previousStartStr /\ d.date <= previousEndStr)]

\* The index of the first metric with a product name, 0 when there is none.
findByName(velocity, productName) ==
  IF \E i \in 1..Len(velocity) : velocity[i].productName = productName
  THEN CHOOSE i \in 1..Len(velocity) :
         /\ velocity[i].productName = productName
         /\ \A j \in 1..(i - 1) : velocity[j].productName # productName
  ELSE 0

\* new Set([...current names, ...previous names]) in insertion order.
allProductsOf(currentVelocity, previousVelocity) ==
  [i \in 1..Len(currentVelocity) |-> currentVelocity[i].productName]
  \o SelectSeq([i \in 1..Len(previousVelocity) |-> previousVelocity[i].productName],
               LAMBDA n : findByName(currentVelocity, n) = 0)

\* The trend read off the thresholds of the classification.
trendOf_WideBand(changePercent) ==
  IF NumLess(Whole(15), changePercent) THEN "accelerating"
  ELSE IF NumLess(changePercent, Whole(0 - 15)) THEN "decelerating"
       ELSE "stable"

trendOf(changePercent) ==
  IF NumLess(Whole(5), changePercent) THEN "accelerating"
  ELSE IF NumLess(changePercent, Whole(0 - 5)) THEN "decelerating"
       ELSE "stable"

changeClassOf(changePercent) ==
  IF NumLess(Whole(15), changePercent) THEN "gainer"
  ELSE IF NumLess(changePercent, Whole(0 - 15)) THEN "loser"
       ELSE "stable"

\* A new product reported as unchanged.
newProductChange_Stable(productName, current) ==
  [productName |-> productName,
   company |-> current.company,
   currentVelocity |-> current.dailyVelocity,
   previousVelocity |-> Zero,
   changePercent |-> Zero,
   changeAbsolute |-> current.dailyVelocity,
   trend |-> "stable",
   classification |-> "stable"]

\* The change pushed for a product in current but not in previous.
newProductChange(productName, current) ==
  [productName |-> productName,
   company |-> current.company,
   currentVelocity |-> current.dailyVelocity,
   previousVelocity |-> Zero,
   changePercent |-> Whole(100),
   changeAbsolute |-> current.dailyVelocity,
   trend |-> "accelerating",
   classification |-> "gainer"]

\* The change pushed for a product in previous but not in current.
discontinuedChange(productName, previousMetric) ==
  [productName |-> productName,
   company |-> previousMetric.company,
   currentVelocity |-> Zero,
   previousVelocity |-> previousMetric.dailyVelocity,
   changePercent |-> Whole(0 - 100),
   changeAbsolute |-> Minus(Zero, previousMetric.dailyVelocity),
   trend |-> "decelerating",
   classification |-> "loser"]

\* The change pushed for a product in both periods.
continuingChange(productName, current, previous) ==
  LET changeAbsolute == Minus(current.dailyVelocity, previous)
      changePercent == IF previous.num > 0
                       THEN Times(Quotient(changeAbsolute, previous), 100)
                       ELSE Zero
  IN [productName |-> productName,
      company |-> current.company,
      currentVelocity |-> current.dailyVelocity,
      previousVelocity |-> previous,
      changePercent |-> changePercent,
      changeAbsolute |-> changeAbsolute,
      trend |-> trendOf(changePercent),
      classification |-> changeClassOf(changePercent)]

\* What the forEach of compareVelocityPeriods pushes for one product name:
\* <<>> or one change.  `current` is truthy when the name is in currentMap;
\* `previous` is the daily velocity in previousMap, truthy when the name is
\* there and the velocity is not 0.
changesFor(productName, currentVelocity, previousVelocity) ==
  LET c == findByName(currentVelocity, productName)
      p == findByName(previousVelocity, productName)
      currentTruthy == c # 0
      previousTruthy == p # 0 /\ previousVelocity[p].dailyVelocity.num # 0
  IN IF currentTruthy /\ ~previousTruthy
     THEN << newProductChange(productName, currentVelocity[c]) >>
     ELSE IF ~currentTruthy /\ previousTruthy
     THEN << discontinuedChange(productName, previousVelocity[p]) >>
     ELSE IF currentTruthy /\ previousTruthy
     THEN << continuingChange(productName, currentVelocity[c],
                              previousVelocity[p].dailyVelocity) >>
     ELSE <<>>

RECURSIVE changesOf(_, _, _)
changesOf(names, currentVelocity, previousVelocity) ==
  IF names = <<>> THEN <<>>
  ELSE changesFor(Head(names), currentVelocity, previousVelocity)
       \o changesOf(Tail(names), currentVelocity, previousVelocity)

compareVelocityPeriods(currentPeriod, previousPeriod) ==
  LET currentVelocity == calculateProductVelocity(currentPeriod)
      previousVelocity == calculateProductVelocity(previousPeriod)
  IN changesOf(allProductsOf(currentVelocity, previousVelocity),
               currentVelocity, previousVelocity)

\* ------------------------------------------------------------------------
\* forecastingUtils: moving averages, forecasts and the backtest
\* ------------------------------------------------------------------------

Abs(n) == IF n < 0 THEN 0 - n ELSE n

RECURSIVE Gcd(_, _)
Gcd(a, b) == IF b = 0 THEN a ELSE Gcd(b, a % b)

\* A quotient in lowest terms.
Reduce(x) ==
  LET g == Gcd(Abs(x.num), x.den)
  IN [num |-> x.num \div g, den |-> x.den \div g]

Plus(a, b) == Reduce([num |-> a.num * b.den + b.num * a.den, den |-> a.den * b.den])

RECURSIVE SumNum(_)
SumNum(s) == IF s = <<>> THEN Zero ELSE Plus(Head(s), SumNum(Tail(s)))

\* a/b <= c/d for a, c >= 0 and b, d > 0, by the continued fractions of the
\* two quotients: no product is formed.
RECURSIVE FracLeq(_, _, _, _)
FracLeq(a, b, c, d) ==
  IF a \div b # c \div d THEN a \div b < c \div d
  ELSE IF a % b = 0 THEN TRUE
  ELSE IF c % d = 0 THEN FALSE
  ELSE FracLeq(d, c % d, b, a % b)

\* Math.round: the nearest integer, a half rounded up.
MathRound(x) == (2 * x.num + x.den) \div (2 * x.den)

\* Math.round(x * 100) / 100
Round2(x) == [num |-> MathRound(Times(x, 100)), den |-> 100]

\* Math.round(Math.sqrt(x) * 100) for x >= 0, searched in lo..hi: the largest k
\* with k - 1/2 <= 100 * sqrt(x), that is k <= 0 or (2k - 1)^2 / 40000 <= x.
RECURSIVE roundedSqrt100(_, _, _)
roundedSqrt100(x, lo, hi) ==
  IF lo = hi THEN lo
  ELSE LET mid == (lo + hi + 1) \div 2
       IN IF FracLeq((2 * mid - 1) * (2 * mid - 1), 40000, x.num, x.den)
          THEN roundedSqrt100(x, mid, hi)
          ELSE roundedSqrt100(x, lo, mid - 1)

\* The whole series taken as the window.
windowOf_WholeSeries(values, windowSize) == SubSeq(values, 1, Len(values))

\* values.slice(-actualWindow) with actualWindow = Math.min(windowSize, length)
windowOf(values, windowSize) ==
  LET actualWindow == IF windowSize < Len(values) THEN windowSize ELSE Len(values)
  IN SubSeq(values, Len(values) - actualWindow + 1, Len(values))

\* The weighted sum divided by the number of values instead of the weights.
weightedAvgOf_PlainDivisor(window) ==
  Divide(SumSeq([i \in 1..Len(window) |-> window[i] * i]), Len(window))

\* The weighted average of a window, the weights being 1..N, oldest first.
weightedAvgOf(window) ==
  LET weights == [i \in 1..Len(window) |-> i]
      weightedSum == SumSeq([i \in 1..Len(window) |-> window[i] * weights[i]])
      totalWeight == SumSeq(weights)
  IN Divide(weightedSum, totalWeight)

\* The square of cv: with mean = total / n and variance the mean of the squared
\* deviations, (stdDev / mean)^2 = sum((n * val - total)^2) / (n * total^2);
\* cv is 1 when the mean is not above 0.
cvSquaredOf(window) ==
  LET n == Len(window)
      total == SumSeq(window)
      squares == SumSeq([i \in 1..n |->
                           (n * window[i] - total) * (n * window[i] - total)])
  IN IF total > 0
     THEN Reduce([num |-> squares, den |-> n * total * total])
     ELSE Whole(1)

\* (1 - cv) * 100 >= need, without the Math.max(0, ...) around it.
variabilityAtLeast_NoFloor(cvSquared, need) ==
  LET room == Reduce([num |-> 100 * need.den - need.num, den |-> 100 * need.den])
  IN /\ room.num >= 0
     /\ FracLeq(cvSquared.num, cvSquared.den, room.num * room.num, room.den * room.den)

\* variabilityScore = Math.max(0, (1 - cv) * 100) >= need: either need <= 0,
\* or cv <= 1 - need / 100, compared by the squares.
variabilityAtLeast(cvSquared, need) ==
  LET room == Reduce([num |-> 100 * need.den - need.num, den |-> 100 * need.den])
  IN \/ need.num <= 0
     \/ /\ room.num >= 0
        /\ FracLeq(cvSquared.num, cvSquared.den, room.num * room.num, room.den * room.den)

\* confidence = Math.min((dataQualityScore + variabilityScore) / 2, 100) is at
\* least k - 1/2.
confidenceAtLeast(cvSquared, dataQualityScore, k) ==
  /\ 2 * k - 1 <= 200
  /\ variabilityAtLeast(cvSquared, Minus(Whole(2 * k - 1), dataQualityScore))

\* Math.round(confidence), searched in lo..hi: the largest k with
\* confidence >= k - 1/2.
RECURSIVE roundedConfidence(_, _, _, _)
roundedConfidence(cvSquared, dataQualityScore, lo, hi) ==
  IF lo = hi THEN lo
  ELSE LET mid == (lo + hi + 1) \div 2
       IN IF confidenceAtLeast(cvSquared, dataQualityScore, mid)
          THEN roundedConfidence(cvSquared, dataQualityScore, mid, hi)
          ELSE roundedConfidence(cvSquared, dataQualityScore, lo, mid - 1)

calculateMovingAverage(values, windowSize) ==
  IF values = <<>> THEN [value |-> Zero, confidence |-> 0]
  ELSE LET window == windowOf(values, windowSize)
           actualWindow == Len(window)
           \* Math.min(actualWindow / windowSize, 1) * 100
           dataQualityScore == IF actualWindow < windowSize
                               THEN Divide(100 * actualWindow, windowSize)
                               ELSE Whole(100)
           cvSquared == cvSquaredOf(window)
       IN [value |-> weightedAvgOf(window),
           confidence |-> roundedConfidence(cvSquared, dataQualityScore, 0 - 400, 400)]

ensembleMovingAverage(values) ==
  LET windows == <<7, 14, 30>>
      forecasts == <<calculateMovingAverage(values, windows[1]),
                     calculateMovingAverage(values, windows[2]),
                     calculateMovingAverage(values, windows[3])>>
      totalConfidence == SumSeq([i \in 1..3 |-> forecasts[i].confidence])
  IN IF totalConfidence = 0 THEN [value |-> Zero, confidence |-> 0]
     ELSE [value |->
             Reduce(Quotient(SumNum([i \in 1..3 |->
                                       Times(forecasts[i].value, forecasts[i].confidence)]),
                             Whole(totalConfidence))),
           confidence |-> MathRound(Divide(totalConfidence, 3))]

Min2(a, b) == IF a < b THEN a ELSE b

\* The two target dates of forecastProduct: a Date of the last date, moved by
\* setDate(getDate() + n), read back by toISOString.
forecastDatesOf(lastDate, tz) ==
  [oneDay |-> toISODate(setDate(tz, NewDate(lastDate), getDate(tz, NewDate(lastDate)) + 1)),
   sevenDay |-> toISODate(setDate(tz, NewDate(lastDate), getDate(tz, NewDate(lastDate)) + 7))]

\* Math.round(stdDev * 100) / 100 of the values of a series: the variance is
\* sum((n * val - total)^2) / n^3.
roundedStdDev(values) ==
  LET n == Len(values)
      total == SumSeq(values)
      variance == Reduce([num |-> SumSeq([i \in 1..n |->
                                           (n * values[i] - total) * (n * values[i] - total)]),
                          den |-> n * n * n])
  IN [num |-> roundedSqrt100(variance, 0, 100 * (variance.num \div variance.den + 1) + 1),
      den |-> 100]

\* forecastProduct without the two target dates, which forecastDatesOf gives.
forecastProduct(timeSeries) ==
  LET dailyData == timeSeries.dailyData
      revenues == [i \in 1..Len(dailyData) |-> dailyData[i].revenue]
      quantities == [i \in 1..Len(dailyData) |-> dailyData[i].quantity]
      daysOfData == Len(dailyData)
      oneDayRevenue == calculateMovingAverage(revenues, 7)
      oneDayQuantity == calculateMovingAverage(quantities, 7)
      sevenDayRevenue == ensembleMovingAverage(revenues)
      sevenDayQuantity == ensembleMovingAverage(quantities)
  IN [productName |-> timeSeries.productName,
      company |-> timeSeries.company,
      oneDayForecast |->
        [revenue |-> Round2(oneDayRevenue.value),
         quantity |-> Round2(oneDayQuantity.value),
         confidence |-> Min2(oneDayRevenue.confidence, oneDayQuantity.confidence)],
      sevenDayForecast |->
        [revenue |-> Round2(Times(sevenDayRevenue.value, 7)),
         quantity |-> Round2(Times(sevenDayQuantity.value, 7)),
         confidence |-> Min2(sevenDayRevenue.confidence, sevenDayQuantity.confidence)],
      historicalMetrics |->
        [avgDailyRevenue |-> Round2(Divide(SumSeq(revenues), daysOfData)),
         avgDailyQuantity |-> Round2(Divide(SumSeq(quantities), daysOfData)),
         standardDeviation |-> [revenue |-> roundedStdDev(revenues),
                                quantity |-> roundedStdDev(quantities)],
         daysOfData |-> daysOfData]]

\* Array.prototype.slice(0, -n) and slice(-n); -0 is 0.
SliceHead(s, n) ==
  IF n = 0 THEN <<>> ELSE SubSeq(s, 1, IF n < Len(s) THEN Len(s) - n ELSE 0)

SliceTail(s, n) ==
  IF n = 0 THEN s ELSE SubSeq(s, IF n < Len(s) THEN Len(s) - n + 1 ELSE 1, Len(s))

revenuesOf(dailyData) == [i \in 1..Len(dailyData) |-> dailyData[i].revenue]

\* A forecast that rolls forward over the test points already seen.
backtestForecastAt_Rolling(trainData, testData, i) ==
  calculateMovingAverage(revenuesOf(trainData \o SubSeq(testData, 1, i - 1)), 7)

\* The forecast inside testData.forEach: calculateMovingAverage over
\* `revenues`, the revenues of trainData, whatever the test point.
backtestForecastAt(trainData, testData, i) ==
  calculateMovingAverage(revenuesOf(trainData), 7)

\* The test points of backtestForecast with their forecasts and errors.
backtestPoints(timeSeries, testDays) ==
  LET trainData == SliceHead(timeSeries.dailyData, testDays)
      testData == SliceTail(timeSeries.dailyData, testDays)
  IN [i \in 1..Len(testData) |->
        LET forecast == backtestForecastAt(trainData, testData, i)
        IN [actual |-> testData[i].revenue,
            forecast |-> forecast.value,
            error |-> LET diff == Reduce(Minus(Whole(testData[i].revenue), forecast.value))
                      IN [diff EXCEPT !.num = Abs(diff.num)]]]

\* The average of the percent errors over every test point, one of no revenue
\* counting as an error of 0.
mapeOf_AllPoints(points) ==
  Reduce(Quotient(SumNum([i \in 1..Len(points) |->
                            IF points[i].actual > 0
                            THEN Reduce(Times(Quotient(points[i].error,
                                                       Whole(points[i].actual)), 100))
                            ELSE Zero]),
                  Whole(Len(points))))

\* percentErrors holds an entry only for a test point of revenue above 0; the
\* mape is their mean, and 0 when there is none.
mapeOf(points) ==
  LET counted == SelectSeq(points, LAMBDA p : p.actual > 0)
      percentErrors == [i \in 1..Len(counted) |->
                          Reduce(Times(Quotient(counted[i].error,
                                                Whole(counted[i].actual)), 100))]
  IN IF percentErrors = <<>> THEN Zero
     ELSE Reduce(Quotient(SumNum(percentErrors), Whole(Len(percentErrors))))

\* The zero metrics of a series too short to test.
backtestForecast_NoGuard(timeSeries, testDays) ==
  [productName |-> timeSeries.productName,
   metrics |-> [mae |-> Zero, mape |-> Zero, rmse |-> Zero],
   testPeriodDays |-> testDays]

backtestForecast(timeSeries, testDays) ==
  IF Len(timeSeries.dailyData) < testDays + 7
  THEN [productName |-> timeSeries.productName,
        metrics |-> [mae |-> Zero, mape |-> Zero, rmse |-> Zero],
        testPeriodDays |-> 0]
  ELSE
    LET points == backtestPoints(timeSeries, testDays)
        errors == [i \in 1..Len(points) |-> points[i].error]
        squaredErrors == [i \in 1..Len(points) |->
                            [num |-> errors[i].num * errors[i].num,
                             den |-> errors[i].den * errors[i].den]]
        mae == Reduce(Quotient(SumNum(errors), Whole(Len(errors))))
        meanSquare == Reduce(Quotient(SumNum(squaredErrors), Whole(Len(squaredErrors))))
    IN [productName |-> timeSeries.productName,
        metrics |->
          [mae |-> Round2(mae),
           mape |-> Round2(mapeOf(points)),
           rmse |-> [num |-> roundedSqrt100(meanSquare, 0,
                                            100 * (meanSquare.num \div meanSquare.den + 1) + 1),
                     den |-> 100]],
        testPeriodDays |-> testDays]

\* validateForecasts: the backtest of each of the top series over 7 test days.
validateForecasts(salesData, topN) ==
  LET timeSeries == prepareProductTimeSeries(salesData, topN)
  IN [i \in 1..Len(timeSeries) |-> backtestForecast(timeSeries[i], 7)]

\* findMissingDates: a Date walks from the first date to the last by
\* setDate(getDate() + 1) in the browser's time zone; each day it shows in
\* toISOString that is not a date of the data is pushed.
RECURSIVE missingFrom(_, _, _, _)
missingFrom(d, end, allDates, tz) ==
  IF d > end THEN <<>>
  ELSE (IF toISODate(d) \in Range(allDates) THEN <<>> ELSE <<toISODate(d)>>)
       \o missingFrom(setDate(tz, d, getDate(tz, d) + 1), end, allDates, tz)

findMissingDates(allDates, tz) ==
  IF Len(allDates) < 2 THEN <<>>
  ELSE missingFrom(NewDate(allDates[1]), NewDate(allDates[Len(allDates)]), allDates, tz)

\* The data quality of generateForecastSummary:
\* missingPercent = (missingDates.length / allDates.length) * 100.
dataQualityOf(missingDates, allDates) ==
  LET missingPercent == Times(Divide(Len(missingDates), Len(allDates)), 100)
  IN IF NumLess(missingPercent, Whole(5)) THEN "excellent"
     ELSE IF NumLess(missingPercent, Whole(15)) THEN "good"
     ELSE IF NumLess(missingPercent, Whole(30)) THEN "fair"
     ELSE "poor"

\* The totals of generateForecastSummary over its product forecasts, of which
\* there is at least one.
totalForecastOf(productForecasts) ==
  LET n == Len(productForecasts)
      total(Forecast(_)) ==
        [revenue |-> Round2(SumNum([i \in 1..n |-> Forecast(productForecasts[i]).revenue])),
         quantity |-> Round2(SumNum([i \in 1..n |-> Forecast(productForecasts[i]).quantity])),
         avgConfidence |->
           MathRound(Divide(SumSeq([i \in 1..n |-> Forecast(productForecasts[i]).confidence]),
                            n))]
  IN [oneDay |-> total(LAMBDA f : f.oneDayForecast),
      sevenDay |-> total(LAMBDA f : f.sevenDayForecast)]

\* The metadata of generateForecastSummary, the warnings left out.
summaryMetadataOf(salesData, tz) ==
  LET allDates == allDatesOf(salesData)
      missingDates == findMissingDates(allDates, tz)
  IN [dataQuality |-> dataQualityOf(missingDates, allDates),
      totalHistoricalDays |-> Len(allDates),
      missingDates |-> missingDates]

\* The product forecasts, the totals and the metadata of
\* generateForecastSummary for a batch list that has a series.
forecastSummaryOf(salesData, topN, tz) ==
  LET timeSeries == prepareProductTimeSeries(salesData, topN)
      productForecasts == [i \in 1..Len(timeSeries) |-> forecastProduct(timeSeries[i])]
  IN [totalForecast |-> totalForecastOf(productForecasts),
      productForecasts |-> productForecasts,
      metadata |-> summaryMetadataOf(salesData, tz)]

\* ------------------------------------------------------------------------
\* Dashboard.tsx: the filters of a render
\* ------------------------------------------------------------------------

\* The ISO string of a day number, for the days the manifest names.
IsoDate(n) == <<"2025-12-01", "2025-12-02", "2025-12-03">>[n]

\* The company filter with the spread batch's totals left as they were.
filterBatchByCompany_KeepTotals(daily, selectedCompany) ==
  [daily EXCEPT !.records =
     SelectSeq(daily.records, LAMBDA r : r.company = selectedCompany)]

\* The company filter's map over one batch: the totals are recomputed from
\* the records kept.
filterBatchByCompany(daily, selectedCompany) ==
  LET kept == SelectSeq(daily.records, LAMBDA r : r.company = selectedCompany) IN
  [daily EXCEPT !.records = kept,
                !.totalAmount = SumAmount(kept),
                !.totalQuantity = SumQty(kept)]

\* filteredData of a render.
FilterData(data, type, date, rangeStart, rangeEnd, company) ==
  LET byType == IF type = "ALL" THEN data
                ELSE SelectSeq(data, LAMBDA d : d.type = type)
      byDate ==
        IF date = "RANGE" /\ rangeStart # <<>> /\ rangeEnd # <<>>
        THEN SelectSeq(byType,
                       LAMBDA d : d.date >= rangeStart[1] /\ d.date <= rangeEnd[1])
        ELSE IF date # "ALL" /\ date # "RANGE"
             THEN SelectSeq(byType, LAMBDA d : IsoDate(d.date) = date)
             ELSE byType
  IN IF company # "ALL"
     THEN [i \in 1..Len(byDate) |-> filterBatchByCompany(byDate[i], company)]
     ELSE byDate

\* Whether the render throws: while loading it returns the spinner before the
\* forecast calls; afterwards it calls generateForecastSummary(filteredData, 10).
RenderError(isLoading, filtered) ==
  IF isLoading THEN "none"
  ELSE IF generateForecastSummary(filtered, 10).threw THEN "TypeError" ELSE "none"

\* Company names in the order Array.prototype.sort gives them.
AlphabeticalCompanies == <<"Coramandel", "Syngenta">>

getAllCompanies(m) ==
  SelectSeq(AlphabeticalCompanies, LAMBDA c : MapHas(m.companyProducts, c))

\* ------------------------------------------------------------------------
\* State
\* ------------------------------------------------------------------------

VARIABLES
  pc,                    \* where loadData stands
  companyMapperInstance, \* the singleton: <<>> for null, else <<mapper>>
  companyPending,        \* companies whose loadCompanyProducts is in flight
  csvFetched,            \* per company, the file text it got: <<>> or <<text>>
  otherCaller,           \* a second caller of getCompanyMapper and what it got
  filePending,           \* manifest entries whose loadXLSFile is in flight
  sheets,                \* per manifest entry, what the fetch and parse gave
  results,               \* the results of Promise.all, as each load returned it
  allData,               \* loadData's allData
  enrichLog,             \* the batches enrichWithCompanyData has returned from
  salesData, loading, availableCompanies, availableDates,
  selectedType, selectedCompany, selectedDate, dateRangeStart, dateRangeEnd,
  filteredData,          \* filteredData of the last render
  renderError            \* "TypeError" when the last render threw

mapperVars == <<companyMapperInstance, companyPending, csvFetched, otherCaller>>
fileVars == <<filePending, sheets, results>>
filterVars == <<selectedType, selectedCompany, selectedDate, dateRangeStart,
                dateRangeEnd>>
dataVars == <<allData, enrichLog, salesData, loading, availableCompanies,
              availableDates>>
renderVars == <<filteredData, renderError>>
vars == <<pc, mapperVars, fileVars, filterVars, dataVars, renderVars>>

Files == 1..Len(Manifest)

SeqsUpTo(S, n) == UNION { [1..k -> S] : k \in 0..n }

\* Records in the batches loaded so far.
LoadedRecords ==
  SumSeq([i \in Files |-> IF results[i] = <<>> THEN 0
                          ELSE Len(results[i][1].records)])

\* A second caller that has not called yet.
IdleCaller ==
  [pc |-> "idle", mapperPending |-> {}, enriched |-> <<>>, enrichPending |-> {}]

Init ==
  /\ pc = "mount"
  /\ companyMapperInstance = <<>>
  /\ companyPending = {}
  /\ csvFetched = [c \in Range(COMPANIES) |-> <<>>]
  /\ otherCaller = IdleCaller
  /\ filePending = {}
  /\ sheets = [i \in Files |-> [status |-> "none", rows |-> <<>>]]
  /\ results = [i \in Files |-> <<>>]
  /\ allData = <<>>
  /\ enrichLog = <<>>
  /\ salesData = <<>>
  /\ loading = TRUE
  /\ availableCompanies = <<>>
  /\ availableDates = <<>>
  /\ selectedType = "ALL"
  /\ selectedCompany = "ALL"
  /\ selectedDate = "ALL"
  /\ dateRangeStart = <<>>
  /\ dateRangeEnd = <<>>
  /\ filteredData = <<>>
  /\ renderError = "none"

\* ------------------------------------------------------------------------
\* loadData and what it awaits
\* ------------------------------------------------------------------------

\* useEffect runs loadData: setLoading(true), then getCompanyMapper finds no
\* instance, makes one and starts a load per company.
LoadDataStart ==
  /\ pc = "mount"
  /\ companyMapperInstance = <<>>
  /\ companyMapperInstance' = <<EmptyMapper>>
  /\ companyPending' = Range(COMPANIES)
  /\ pc' = "awaitMapper"
  /\ UNCHANGED <<csvFetched, otherCaller, fileVars, filterVars, dataVars, renderVars>>

\* loadCompanyProducts(companyName) gets a product file (under either of the
\* two file names) and parses it into the shared maps.
LoadCompanyProductsParses(companyName) ==
  /\ companyName \in companyPending
  /\ \E text \in CsvTexts :
       /\ companyMapperInstance' =
            <<parseCSV(companyMapperInstance[1], text, companyName)>>
       /\ csvFetched' = [csvFetched EXCEPT ![companyName] = <<text>>]
  /\ companyPending' = companyPending \ {companyName}
  /\ UNCHANGED <<pc, otherCaller, fileVars, filterVars, dataVars, renderVars>>

\* loadCompanyProducts(companyName) finds neither file, or its fetch throws.
LoadCompanyProductsFails(companyName) ==
  /\ companyName \in companyPending
  /\ companyPending' = companyPending \ {companyName}
  /\ UNCHANGED <<pc, companyMapperInstance, csvFetched, otherCaller, fileVars,
                 filterVars, dataVars, renderVars>>

\* Promise.all of the company loads resolves, getCompanyMapper returns and
\* loadAllDataFromManifest fetches the manifest.
GetCompanyMapperReturns ==
  /\ pc = "awaitMapper"
  /\ companyPending = {}
  /\ pc' = "awaitManifest"
  /\ UNCHANGED <<mapperVars, fileVars, filterVars, dataVars, renderVars>>

\* The manifest arrives: one loadXLSFile per entry starts.
ManifestLoaded ==
  /\ pc = "awaitManifest"
  /\ filePending' = Files
  /\ sheets' = [i \in Files |-> [status |-> "pending", rows |-> <<>>]]
  /\ pc' = "awaitFiles"
  /\ UNCHANGED <<results, mapperVars, filterVars, dataVars, renderVars>>

\* The manifest cannot be fetched or parsed: the catch returns [].
ManifestFails ==
  /\ pc = "awaitManifest"
  /\ allData' = <<>>
  /\ pc' = "enrich"
  /\ UNCHANGED <<mapperVars, fileVars, filterVars, enrichLog, salesData, loading,
                 availableCompanies, availableDates, renderVars>>

\* loadXLSFile of manifest entry i reads its sheet and returns a batch.
LoadXLSFileReturns(i) ==
  /\ i \in filePending
  /\ \E rows \in SeqsUpTo(RawRows, MaxRecords - LoadedRecords) :
       /\ sheets' = [sheets EXCEPT ![i] = [status |-> "ok", rows |-> rows]]
       /\ results' = [results EXCEPT
                        ![i] = <<loadXLSFile(rows, Manifest[i].type, Manifest[i].date)>>]
  /\ filePending' = filePending \ {i}
  /\ UNCHANGED <<pc, mapperVars, filterVars, dataVars, renderVars>>

\* loadXLSFile of manifest entry i throws inside its try: it returns null.
LoadXLSFileFails(i) ==
  /\ i \in filePending
  /\ sheets' = [sheets EXCEPT ![i] = [status |-> "error", rows |-> <<>>]]
  /\ results' = [results EXCEPT ![i] = <<>>]
  /\ filePending' = filePending \ {i}
  /\ UNCHANGED <<pc, mapperVars, filterVars, dataVars, renderVars>>

\* Promise.all of the file loads resolves: loadAllDataFromManifest collects
\* the results and returns.
LoadAllDataReturns ==
  /\ pc = "awaitFiles"
  /\ filePending = {}
  /\ allData' = collectResults([i \in Files |-> results[i]])
  /\ pc' = "enrich"
  /\ UNCHANGED <<mapperVars, fileVars, filterVars, enrichLog, salesData, loading,
                 availableCompanies, availableDates, renderVars>>

\* loadData without its call of enrichWithCompanyData.
LoadDataContinue_NoEnrich ==
  /\ pc = "enrich"
  /\ availableCompanies' = getAllCompanies(companyMapperInstance[1])
  /\ availableDates' = allDatesOf(allData)
  /\ salesData' = allData
  /\ loading' = FALSE
  /\ filteredData' = FilterData(allData, selectedType, selectedDate,
                                dateRangeStart, dateRangeEnd, selectedCompany)
  /\ renderError' = RenderError(FALSE, filteredData')
  /\ pc' = "done"
  /\ UNCHANGED <<allData, enrichLog, mapperVars, fileVars, filterVars>>

\* The rest of loadData, which runs without a break: enrichment, the state
\* setters, and the render they cause.
LoadDataContinue ==
  /\ pc = "enrich"
  /\ LET companyMapper == companyMapperInstance[1]
         enriched == enrichWithCompanyData(allData, companyMapper)
     IN /\ allData' = enriched
        /\ enrichLog' = enriched
        /\ availableCompanies' = getAllCompanies(companyMapper)
        /\ availableDates' = allDatesOf(enriched)
        /\ salesData' = enriched
        /\ loading' = FALSE
        /\ filteredData' = FilterData(enriched, selectedType, selectedDate,
                                      dateRangeStart, dateRangeEnd, selectedCompany)
        /\ renderError' = RenderError(FALSE, filteredData')
  /\ pc' = "done"
  /\ UNCHANGED <<mapperVars, fileVars, filterVars>>

\* ------------------------------------------------------------------------
\* The filter controls, shown once loading is over and the render succeeded
\* ------------------------------------------------------------------------

ControlsShown == pc = "done" /\ ~loading /\ renderError = "none"

\* The render that follows a change of the filter state.
Rerender ==
  /\ filteredData' = FilterData(salesData, selectedType', selectedDate',
                                dateRangeStart', dateRangeEnd', selectedCompany')
  /\ renderError' = RenderError(loading, filteredData')

SetSelectedType(value) ==
  /\ ControlsShown
  /\ selectedType' = value
  /\ UNCHANGED <<selectedCompany, selectedDate, dateRangeStart, dateRangeEnd>>
  /\ Rerender
  /\ UNCHANGED <<pc, mapperVars, fileVars, dataVars>>

SetSelectedCompany(value) ==
  /\ ControlsShown
  /\ selectedCompany' = value
  /\ UNCHANGED <<selectedType, selectedDate, dateRangeStart, dateRangeEnd>>
  /\ Rerender
  /\ UNCHANGED <<pc, mapperVars, fileVars, dataVars>>

\* The presets of the Period control that the model offers.
Presets == {"ALL", "TODAY", "LAST_7"}

handlePresetRange(preset) ==
  /\ ControlsShown
  /\ availableDates # <<>>
  /\ LET latestDate == availableDates[Len(availableDates)] IN
     CASE preset = "ALL" ->
            /\ dateRangeStart' = <<>>
            /\ dateRangeEnd' = <<>>
            /\ selectedDate' = "ALL"
       [] preset = "TODAY" ->
            /\ dateRangeStart' = <<latestDate>>
            /\ dateRangeEnd' = <<latestDate>>
            /\ selectedDate' = "RANGE"
       [] preset = "LAST_7" ->
            /\ dateRangeStart' = <<latestDate - 6>>
            /\ dateRangeEnd' = <<latestDate>>
            /\ selectedDate' = "RANGE"
  /\ UNCHANGED <<selectedType, selectedCompany>>
  /\ Rerender
  /\ UNCHANGED <<pc, mapperVars, fileVars, dataVars>>

\* The "Clear filters" button, shown when a filter is set.
ClearFilters ==
  /\ ControlsShown
  /\ selectedType # "ALL" \/ selectedDate # "ALL" \/ selectedCompany # "ALL"
  /\ selectedType' = "ALL"
  /\ selectedDate' = "ALL"
  /\ selectedCompany' = "ALL"
  /\ dateRangeStart' = <<>>
  /\ dateRangeEnd' = <<>>
  /\ Rerender
  /\ UNCHANGED <<pc, mapperVars, fileVars, dataVars>>

Next ==
  \/ LoadDataStart
  \/ \E companyName \in Range(COMPANIES) : LoadCompanyProductsParses(companyName)
  \/ \E companyName \in Range(COMPANIES) : LoadCompanyProductsFails(companyName)
  \/ GetCompanyMapperReturns
  \/ ManifestLoaded
  \/ ManifestFails
  \/ \E i \in Files : LoadXLSFileReturns(i)
  \/ \E i \in Files : LoadXLSFileFails(i)
  \/ LoadAllDataReturns
  \/ LoadDataContinue
  \/ \E value \in {"ALL", "PS", "FS"} : SetSelectedType(value)
  \/ \E value \in {"ALL"} \cup Range(availableCompanies) : SetSelectedCompany(value)
  \/ \E preset \in Presets : handlePresetRange(preset)
  \/ ClearFilters

Spec == Init /\ [][Next]_vars

TypeOK ==
  /\ pc \in {"mount", "awaitMapper", "awaitManifest", "awaitFiles", "enrich", "done"}
  /\ otherCaller.pc \in {"idle", "hasMapper", "enriched"}
  /\ loading \in BOOLEAN
  /\ renderError \in {"none", "TypeError"}
  /\ selectedType \in {"ALL", "PS", "FS"}
  /\ selectedDate \in {"ALL", "RANGE"}

\* ------------------------------------------------------------------------
\* A second caller of getCompanyMapper while loadData awaits the first call
\* ------------------------------------------------------------------------

\* getCompanyMapper is called again, by a second run of loadData, after the
\* first call made the instance: the `if` is skipped and the instance is
\* returned at once, whatever is still in flight.
OtherGetCompanyMapper ==
  /\ otherCaller.pc = "idle"
  /\ companyMapperInstance # <<>>
  /\ otherCaller' = [otherCaller EXCEPT !.pc = "hasMapper",
                                        !.mapperPending = companyPending]
  /\ UNCHANGED <<pc, companyMapperInstance, companyPending, csvFetched, fileVars,
                 filterVars, dataVars, renderVars>>

\* The second caller's data arrives and enrichWithCompanyData runs over a
\* record of it, with the mapper as it stands.
OtherEnriches ==
  /\ otherCaller.pc = "hasMapper"
  /\ \E row \in RawRows :
       otherCaller' =
         [otherCaller EXCEPT
            !.pc = "enriched",
            !.enriched = <<enrichRecord(toSalesRecord(row), companyMapperInstance[1])>>,
            !.enrichPending = companyPending]
  /\ UNCHANGED <<pc, companyMapperInstance, companyPending, csvFetched, fileVars,
                 filterVars, dataVars, renderVars>>

ConcurrentNext ==
  \/ LoadDataStart
  \/ \E companyName \in Range(COMPANIES) : LoadCompanyProductsParses(companyName)
  \/ \E companyName \in Range(COMPANIES) : LoadCompanyProductsFails(companyName)
  \/ GetCompanyMapperReturns
  \/ OtherGetCompanyMapper
  \/ OtherEnriches

ConcurrentSpec == Init /\ [][ConcurrentNext]_vars

\* ------------------------------------------------------------------------
\* The velocity tab: the dashboard after a load of a longer manifest, for the
\* functions a render applies to filteredData
\* ------------------------------------------------------------------------

MaxProducts == 4

MaxQty == 2

MaxDay == 61

\* The i-th product name of the sheets.
ProductName(i) == [j \in 1..i |-> "p"]

SheetRow(i, qty) == [ITNAME |-> ProductName(i), QTY |-> <<qty>>, TAXBLEAMT |-> <<1>>]

\* One sheet with a row for each of n products, of any quantities.
RankingData ==
  UNION { { << loadXLSFile([i \in 1..n |-> SheetRow(i, qty[i])], "PS", 1) >> :
              qty \in [1..n -> 0..MaxQty] } :
          n \in 0..MaxProducts }

\* Two sheets of one or two rows of two products, of the same or of
\* different dates and types.
DaysRows == { SheetRow(1, 1), SheetRow(1, MaxQty), SheetRow(2, 1) }

DaysSheets == UNION { [1..k -> DaysRows] : k \in 1..2 }

DaysData ==
  { << loadXLSFile(rows1, "PS", 1), loadXLSFile(rows2, type, date) >> :
      rows1 \in DaysSheets, rows2 \in DaysSheets, type \in {"PS", "FS"},
      date \in 1..2 }

\* Two sheets a week apart, of one or two rows of two products.
PeriodRows == { SheetRow(i, qty) : i \in 1..2, qty \in 0..MaxQty }

PeriodSheets == UNION { [1..k -> PeriodRows] : k \in 1..2 }

PeriodData ==
  { << loadXLSFile(rows1, "PS", 1), loadXLSFile(rows2, "PS", 8) >> :
      rows1 \in PeriodSheets, rows2 \in PeriodSheets }

\* The sheet of a day: PS and FS in turn.
DaySheet(day) ==
  loadXLSFile(<<SheetRow(1, 1)>>, IF day % 2 = 1 THEN "PS" ELSE "FS", day)

\* A sheet a day over a run of up to 16 days that ends on one of the last
\* two days.
DailyData ==
  { [k \in 1..(hi - lo + 1) |-> DaySheet(lo + k - 1)] :
      lo \in (MaxDay - 16)..(MaxDay - 1), hi \in (MaxDay - 1)..MaxDay }

\* Sheets on some of the days at the ends of the two windows of a period
\* that ends on one of the last two days.
WindowEnds(latest, periodType) ==
  LET n == periodDaysOf(periodType) IN
  { latest - 2 * n, latest - 2 * n + 1, latest - n - 1, latest - n,
    latest - n + 1, latest - 1 }

SparseSheets(latest) ==
  { [k \in 1..(Cardinality(days) + 1) |->
       DaySheet((SortedSet(days) \o <<latest>>)[k])] :
      days \in UNION { SUBSET WindowEnds(latest, periodType) :
                       periodType \in {"week", "month"} } }

SparseData == SparseSheets(MaxDay - 1) \cup SparseSheets(MaxDay)

\* One product sold a week apart, in quantities that differ by 5%, by 15%, by
\* less and by more.
ThresholdQty == {16, 17, 19, 20, 21, 23, 24}

ThresholdData ==
  { << loadXLSFile(<<SheetRow(1, before)>>, "PS", 1),
       loadXLSFile(<<SheetRow(1, after)>>, "PS", 8) >> :
      before \in ThresholdQty, after \in ThresholdQty }

VelocityInputs ==
  {<<>>} \cup RankingData \cup DaysData \cup PeriodData \cup DailyData
         \cup SparseData \cup ThresholdData

\* The time zones a browser may be in: UTC, fixed offsets west and east, and
\* zones whose clocks change shortly before the last days of the data.
DstChange == 24 * (MaxDay - 3)

TimeZones ==
  { [before |-> 0, after |-> 0, at |-> 0],
    [before |-> 0 - 5, after |-> 0 - 5, at |-> 0],
    [before |-> 9, after |-> 9, at |-> 0],
    [before |-> 0 - 4, after |-> 0 - 5, at |-> DstChange + 6],
    [before |-> 2, after |-> 1, at |-> DstChange + 1],
    [before |-> 0 - 5, after |-> 0 - 4, at |-> DstChange + 7] }

PeriodTypes == {"week", "month"}

\* loadData is over: the company files were not found, the sheets are loaded.
VelocityInit ==
  /\ pc = "done"
  /\ companyMapperInstance = <<EmptyMapper>>
  /\ companyPending = {}
  /\ csvFetched = [c \in Range(COMPANIES) |-> <<>>]
  /\ otherCaller = IdleCaller
  /\ filePending = {}
  /\ sheets = [i \in Files |-> [status |-> "none", rows |-> <<>>]]
  /\ results = [i \in Files |-> <<>>]
  /\ salesData \in VelocityInputs
  /\ allData = salesData
  /\ enrichLog = salesData
  /\ loading = FALSE
  /\ availableCompanies = <<>>
  /\ availableDates = allDatesOf(salesData)
  /\ selectedType = "ALL"
  /\ selectedCompany = "ALL"
  /\ selectedDate = "ALL"
  /\ dateRangeStart = <<>>
  /\ dateRangeEnd = <<>>
  /\ filteredData = salesData
  /\ renderError = RenderError(FALSE, salesData)

VelocityNext ==
  \/ \E value \in {"ALL", "PS", "FS"} : SetSelectedType(value)
  \/ ClearFilters

VelocitySpec == VelocityInit /\ [][VelocityNext]_vars

\* ------------------------------------------------------------------------
\* The forecast tab: the dashboard after a load of daily sheets of one
\* product, under the same filter controls
\* ------------------------------------------------------------------------

MaxValue == 3

MaxSeries == 31

MaxShort == 4

ForecastSheet(day, amount, qty) ==
  loadXLSFile(<<[ITNAME |-> ProductName(1), QTY |-> <<qty>>, TAXBLEAMT |-> <<amount>>]>>,
              "PS", day)

\* A sheet a day for 30 days or more, every day of the same amount.
ConstantData ==
  { [k \in 1..n |-> ForecastSheet(k, v, v)] : n \in 30..MaxSeries, v \in 0..MaxValue }

\* A few days of any amounts, the quantities being the amounts backwards.
ShortData ==
  UNION { { [k \in 1..n |-> ForecastSheet(k, amount[k], amount[n + 1 - k])] :
              amount \in [1..n -> 0..MaxValue] } :
          n \in 1..MaxShort }

\* Training days that are constant or climb, followed by 7 days that are each 0
\* or the largest amount: 13, 14 or 15 days in all.
TrainAmounts == { [k \in 1..8 |-> v] : v \in 0..MaxValue } \cup { [k \in 1..8 |-> k % (MaxValue + 1)] }

BacktestData ==
  UNION { { [k \in 1..n |->
               IF k <= n - 7 THEN ForecastSheet(k, train[k], 1)
               ELSE ForecastSheet(k, test[k - (n - 7)], 1)] :
              train \in TrainAmounts, test \in [1..7 -> {0, MaxValue}] } :
          n \in 13..15 }

\* Sheets on some of the last six days.
GapData ==
  { [k \in 1..Cardinality(days) |-> ForecastSheet(SortedSet(days)[k], 1, 1)] :
      days \in SUBSET ((MaxDay - 5)..MaxDay) \ {{}} }

ForecastInputs == ConstantData \cup ShortData \cup BacktestData \cup GapData

ForecastInit ==
  /\ pc = "done"
  /\ companyMapperInstance = <<EmptyMapper>>
  /\ companyPending = {}
  /\ csvFetched = [c \in Range(COMPANIES) |-> <<>>]
  /\ otherCaller = IdleCaller
  /\ filePending = {}
  /\ sheets = [i \in Files |-> [status |-> "none", rows |-> <<>>]]
  /\ results = [i \in Files |-> <<>>]
  /\ salesData \in ForecastInputs
  /\ allData = salesData
  /\ enrichLog = salesData
  /\ loading = FALSE
  /\ availableCompanies = <<>>
  /\ availableDates = allDatesOf(salesData)
  /\ selectedType = "ALL"
  /\ selectedCompany = "ALL"
  /\ selectedDate = "ALL"
  /\ dateRangeStart = <<>>
  /\ dateRangeEnd = <<>>
  /\ filteredData = salesData
  /\ renderError = RenderError(FALSE, salesData)

ForecastNext ==
  \/ \E value \in {"ALL", "PS", "FS"} : SetSelectedType(value)
  \/ ClearFilters

ForecastSpec == ForecastInit /\ [][ForecastNext]_vars

\* ------------------------------------------------------------------------
\* Vocabulary of the properties
\* ------------------------------------------------------------------------

\* The records of a batch list, without their batches.
RecordsOf(data) ==
  LET flat == FlatRecords(data) IN [i \in 1..Len(flat) |-> flat[i].record]

SumField(s, Field(_)) == SumSeq([i \in 1..Len(s) |-> Field(s[i])])

TotalsInvariant(batch) ==
  /\ batch.totalAmount = SumAmount(batch.records)
  /\ batch.totalQuantity = SumQty(batch.records)

\* The batch lists the aggregation functions are called with.
Rendered == pc = "done" /\ renderError = "none"

\* C1: for every batch set a render passes to the core functions, the empty
\* one and one whose batches hold no records included, no core function
\* throws.
C1_NoCoreFunctionThrows == renderError # "TypeError"

\* C2: over batches that satisfy the totals invariant, the totalAmount of the
\* entries of aggregateByProduct sums to getTotalSales and their totalQty to
\* getTotalQuantity.
C2_ProductTotalsMatch ==
  \A data \in {salesData, filteredData} :
    (\A b \in 1..Len(data) : TotalsInvariant(data[b])) =>
      LET products == aggregateByProduct(data) IN
      /\ SumField(products, LAMBDA e : e.totalAmount) = getTotalSales(data)
      /\ SumField(products, LAMBDA e : e.totalQty) = getTotalQuantity(data)

\* One product sold in both batches of the rendered list.
C2_Witness ==
  /\ Rendered
  /\ Len(filteredData) = 2
  /\ Len(filteredData[1].records) = 1
  /\ Len(filteredData[2].records) = 1
  /\ filteredData[1].records[1].ITNAME = filteredData[2].records[1].ITNAME
  /\ Len(aggregateByProduct(filteredData)) = 1
  /\ getTotalSales(filteredData) = 3

\* C3: the company totals of aggregateByCompany sum to the product totals of
\* aggregateByProduct, for amount and for quantity, and each company's
\* totalAmount is the sum over its own products.
C3_CompanyTotalsMatch ==
  \A data \in {salesData, filteredData} :
    LET companies == aggregateByCompany(data)
        products == aggregateByProduct(data)
    IN /\ SumField(companies, LAMBDA c : c.totalAmount)
            = SumField(products, LAMBDA e : e.totalAmount)
       /\ SumField(companies, LAMBDA c : c.totalQuantity)
            = SumField(products, LAMBDA e : e.totalQty)
       /\ \A i \in 1..Len(companies) :
            companies[i].totalAmount
              = SumField(companies[i].products, LAMBDA e : e.totalAmount)

\* A rendered list with a record of a known company and one of none.
C3_Witness ==
  /\ Rendered
  /\ Len(aggregateByCompany(filteredData)) = 2
  /\ \E i \in 1..2 : aggregateByCompany(filteredData)[i].companyName = "Unknown"

\* Whether a flat record of salesData passes the filters as they are set.
PassesFilters(f) ==
  /\ selectedType = "ALL" \/ f.type = selectedType
  /\ (selectedDate = "RANGE" /\ dateRangeStart # <<>> /\ dateRangeEnd # <<>>)
       => (dateRangeStart[1] <= f.date /\ f.date <= dateRangeEnd[1])
  /\ selectedCompany = "ALL" \/ f.record.company = selectedCompany

\* C4: every batch that reaches an aggregation function has totalAmount and
\* totalQuantity equal to the sums over its records, as built by loadXLSFile
\* and as left by the category, date and company filters; the totals of the
\* filtered list are the sums over exactly the records that pass the filters.
C4_TotalsAreSumsOfRecords ==
  /\ \A i \in Files : results[i] # <<>> => TotalsInvariant(results[i][1])
  /\ \A data \in {allData, salesData, filteredData} :
       \A b \in 1..Len(data) : TotalsInvariant(data[b])
  /\ LET passing == SelectSeq(FlatRecords(salesData), PassesFilters)
         expected == [i \in 1..Len(passing) |-> passing[i].record]
     IN /\ RecordsOf(filteredData) = expected
        /\ getTotalSales(filteredData) = SumAmount(expected)
        /\ getTotalQuantity(filteredData) = SumQty(expected)

\* The company filter keeps one of the two records of a batch.
C4_Witness ==
  /\ Rendered
  /\ selectedCompany # "ALL"
  /\ Len(filteredData) = Len(salesData)
  /\ \E b \in 1..Len(salesData) :
       /\ Len(salesData[b].records) = 2
       /\ Len(filteredData[b].records) = 1
       /\ filteredData[b].totalAmount < salesData[b].totalAmount

NormalizedNamesOf(data) ==
  { normalizeProductName(r.ITNAME) : r \in Range(RecordsOf(data)) }

ItemNamesOf(data) == { r.ITNAME : r \in Range(RecordsOf(data)) }

\* The product names of the groups each grouping function makes.
GroupNames(data) ==
  LET byProduct == aggregateByProduct(data)
      withCompany == aggregateByProductWithCompany(data)
      byCompany == aggregateByCompany(data)
      series == prepareProductTimeSeries(data, 10)
  IN << { byProduct[i].productName : i \in 1..Len(byProduct) },
        { withCompany[i].productName : i \in 1..Len(withCompany) },
        UNION { { byCompany[i].products[j].productName :
                    j \in 1..Len(byCompany[i].products) } :
                i \in 1..Len(byCompany) },
        Range(MapKeys(velocityProductMap(data))),
        { series[i].productName : i \in 1..Len(series) } >>

\* C5: grouping in the aggregation, velocity and forecast functions is by the
\* item name after normalization (lowercase and trim): two records whose
\* normalized names are equal have one group key, and each function makes one
\* group per normalized item name.
C5_GroupByNormalizedName ==
  \A data \in {salesData, filteredData} :
    /\ \A r1, r2 \in Range(RecordsOf(data)) :
         normalizeProductName(r1.ITNAME) = normalizeProductName(r2.ITNAME)
           => productKey(r1) = productKey(r2)
    /\ LET names == GroupNames(data) IN
       \A k \in 1..5 :
         Cardinality(names[k]) = Cardinality(NormalizedNamesOf(data))

\* What the functions do in place of C5: they group by the item name as it
\* stands.  Two records fall into the same product group exactly when their
\* ITNAME strings are equal; each function makes one group per distinct
\* ITNAME, named by it, and a product's totals are the sums over the records
\* with exactly that ITNAME.
GroupingIsByExactName ==
  \A data \in {salesData, filteredData} :
    /\ \A r1, r2 \in Range(RecordsOf(data)) :
         (productKey(r1) = productKey(r2)) <=> (r1.ITNAME = r2.ITNAME)
    /\ LET names == GroupNames(data) IN
       \A k \in 1..5 : names[k] = ItemNamesOf(data)
    /\ LET byProduct == aggregateByProduct(data) IN
       \A i \in 1..Len(byProduct) :
         LET own == SelectSeq(RecordsOf(data),
                              LAMBDA r : r.ITNAME = byProduct[i].productName)
         IN /\ byProduct[i].totalQty = SumQty(own)
            /\ byProduct[i].totalAmount = SumAmount(own)

\* Two rendered records whose names differ only by case and spaces.
C5_Witness ==
  /\ Rendered
  /\ \E r1, r2 \in Range(RecordsOf(filteredData)) :
       /\ r1.ITNAME # r2.ITNAME
       /\ normalizeProductName(r1.ITNAME) = normalizeProductName(r2.ITNAME)
  /\ Len(aggregateByProduct(filteredData)) = 2

\* The companies the mapper's index holds for a record's normalized name.
Resolved(m, record) ==
  { m.productToCompany[i].value :
      i \in { j \in 1..Len(m.productToCompany) :
                m.productToCompany[j].key = normalizeProductName(record.ITNAME) } }

\* C6: the step of loadData that runs enrichWithCompanyData leaves every
\* record whose normalized item name the mapper resolves with that company,
\* every record it does not resolve with no company, and every other field
\* of every record and batch as it was.
C6_EnrichSetsCompany ==
  [][(pc = "enrich" /\ pc' = "done") =>
       LET m == companyMapperInstance[1] IN
       /\ Len(salesData') = Len(allData)
       /\ \A b \in 1..Len(allData) :
            /\ [salesData'[b] EXCEPT !.records = <<>>]
                 = [allData[b] EXCEPT !.records = <<>>]
            /\ Len(salesData'[b].records) = Len(allData[b].records)
            /\ \A k \in 1..Len(allData[b].records) :
                 LET before == allData[b].records[k]
                     after == salesData'[b].records[k]
                 IN /\ [after EXCEPT !.company = Undefined]
                         = [before EXCEPT !.company = Undefined]
                    /\ Resolved(m, before) # {}
                         => Resolved(m, before) = {after.company}
                    /\ Resolved(m, before) = {}
                         => after.company = Undefined]_vars

\* Enrichment has run over a record resolved through normalization of its
\* name and over a record the mapper does not resolve.
C6_Witness ==
  /\ pc = "done"
  /\ \E r1, r2 \in Range(RecordsOf(salesData)) :
       /\ r1.ITNAME # normalizeProductName(r1.ITNAME)
       /\ r1.company # Undefined
       /\ Resolved(companyMapperInstance[1], r2) = {}
       /\ r2.company = Undefined

\* C7: enrichWithCompanyData is idempotent: run again with the same mapper
\* over the data it has enriched, it leaves every record as it is.
C7_EnrichIdempotent ==
  /\ pc = "done"
       => enrichWithCompanyData(salesData, companyMapperInstance[1]) = salesData
  /\ pc = "enrich"
       => LET once == enrichWithCompanyData(allData, companyMapperInstance[1])
          IN enrichWithCompanyData(once, companyMapperInstance[1]) = once

\* The enriched data holds a record with a company and one without.
C7_Witness ==
  /\ pc = "done"
  /\ \E r1, r2 \in Range(RecordsOf(salesData)) :
       r1.company # Undefined /\ r2.company = Undefined
  /\ Len(RecordsOf(salesData)) = MaxRecords

\* C8: enrichment of the whole batch list completes before any aggregation,
\* velocity or forecast function is evaluated over it.  The functions are
\* evaluated over filteredData at every render: until loadData is done that
\* list has no record, and from then on every record in it has been through
\* enrichWithCompanyData and carries the company the mapper gives its name.
C8_EnrichBeforeAggregation ==
  /\ pc # "done" => (salesData = <<>> /\ RecordsOf(filteredData) = <<>>)
  /\ pc = "done" => salesData = enrichLog
  /\ \A r \in Range(RecordsOf(filteredData)) :
       /\ r \in Range(RecordsOf(enrichLog))
       /\ r.company = getCompanyForProduct(companyMapperInstance[1], r.ITNAME)

\* The aggregates are computed over loaded records, one with a company.
C8_Witness ==
  /\ Rendered
  /\ Len(RecordsOf(filteredData)) = MaxRecords
  /\ \E r \in Range(RecordsOf(filteredData)) : r.company # Undefined
  /\ aggregateByCompany(filteredData) # <<>>

\* The mapper the company files give when parsed one after another in the
\* order of COMPANIES.
RECURSIVE SequentialMapper(_)
SequentialMapper(n) ==
  IF n = 0 THEN EmptyMapper
  ELSE IF csvFetched[COMPANIES[n]] = <<>> THEN SequentialMapper(n - 1)
       ELSE parseCSV(SequentialMapper(n - 1), csvFetched[COMPANIES[n]][1],
                     COMPANIES[n])

\* C9: the mapping loadAllCompanyMappings produces is the same for every
\* completion order of the per-company loads: once all loads are over, each
\* product name resolves to the company it resolves to when the same files
\* are parsed in the order of COMPANIES.
C9_MappingOrderIndependent ==
  (pc # "mount" /\ companyPending = {}) =>
    \A name \in RawNames :
      getCompanyForProduct(companyMapperInstance[1], name)
        = getCompanyForProduct(SequentialMapper(Len(COMPANIES)), name)

\* Two company files that list one product have both been parsed.
C9_Witness ==
  /\ pc # "mount" /\ companyPending = {}
  /\ \A c \in Range(COMPANIES) : csvFetched[c] # <<>>
  /\ \E l1 \in 2..Len(csvFetched[COMPANIES[1]][1]) :
       \E l2 \in 2..Len(csvFetched[COMPANIES[2]][1]) :
         /\ trim(csvFetched[COMPANIES[1]][1][l1]) # <<>>
         /\ normalizeProductName(csvFetched[COMPANIES[1]][1][l1])
              = normalizeProductName(csvFetched[COMPANIES[2]][1][l2])

\* The manifest entries whose load succeeded, in manifest order.
OkFiles == SelectSeq([i \in Files |-> i], LAMBDA i : sheets[i].status = "ok")

\* C10: loadAllDataFromManifest tolerates individual load failures: whatever
\* files fail and in whatever order the loads complete, it returns exactly
\* the batches of the files that loaded, in manifest order, and a failed file
\* does not make the result empty while another file loaded.
C10_ManifestToleratesFailures ==
  (pc = "enrich" /\ \A i \in Files : sheets[i].status \in {"ok", "error"}) =>
    /\ Len(allData) = Len(OkFiles)
    /\ \A k \in 1..Len(OkFiles) :
         /\ allData[k].date = Manifest[OkFiles[k]].date
         /\ allData[k].type = Manifest[OkFiles[k]].type
         /\ [j \in 1..Len(allData[k].records) |-> allData[k].records[j].ITNAME]
              = [j \in 1..Len(sheets[OkFiles[k]].rows) |->
                   sheets[OkFiles[k]].rows[j].ITNAME]
    /\ (\E i \in Files : sheets[i].status = "ok") => allData # <<>>

\* The first file of the manifest failed and the second loaded.
C10_Witness ==
  /\ pc = "enrich"
  /\ sheets[1].status = "error"
  /\ sheets[2].status = "ok"
  /\ Len(allData) = 1
  /\ allData[1].date = Manifest[2].date
  /\ allData[1].records # <<>>

\* The velocity metrics of the last render.
RenderedVelocity == calculateProductVelocity(filteredData)

\* C11: with N distinct products the ranks calculateProductVelocity returns
\* are exactly 1..N, one metric per product and rank, and a product of
\* smaller rank has a daily velocity at least that of one of larger rank.
C11_RanksArePermutation ==
  LET v == RenderedVelocity
      N == Cardinality(ItemNamesOf(filteredData))
  IN /\ Len(v) = N
     /\ { v[i].productName : i \in 1..Len(v) } = ItemNamesOf(filteredData)
     /\ { v[i].rank : i \in 1..Len(v) } = 1..N
     /\ \A i, j \in 1..Len(v) :
          v[i].rank < v[j].rank
            => ~NumLess(v[i].dailyVelocity, v[j].dailyVelocity)

\* Three products or more, ranked in another order than the sheet's, two of
\* them with the same velocity.
C11_Witness ==
  LET v == RenderedVelocity IN
  /\ pc = "done"
  /\ Len(v) >= 3
  /\ v[1].productName # RecordsOf(filteredData)[1].ITNAME
  /\ NumEq(v[2].dailyVelocity, v[3].dailyVelocity)
  /\ NumLess(v[2].dailyVelocity, v[1].dailyVelocity)

\* C12: for every number N of products the fast, medium and slow counts of
\* getVelocityDistribution sum to N, and every fast product ranks above every
\* medium one, which ranks above every slow one.
C12_DistributionSumsToTotal ==
  LET v == RenderedVelocity
      d == getVelocityDistribution(v)
      RankOrder(hi, lo) ==
        \A i, j \in 1..Len(v) :
          (v[i].classification = hi /\ v[j].classification = lo)
            => v[i].rank < v[j].rank
  IN /\ d.fast + d.medium + d.slow = Cardinality(ItemNamesOf(filteredData))
     /\ \A i \in 1..Len(v) : v[i].classification \in {"fast", "medium", "slow"}
     /\ RankOrder("fast", "medium")
     /\ RankOrder("medium", "slow")
     /\ RankOrder("fast", "slow")

\* Products of all three classes.
C12_Witness ==
  LET d == getVelocityDistribution(RenderedVelocity) IN
  /\ pc = "done"
  /\ d.fast >= 1 /\ d.medium >= 1 /\ d.slow >= 1

\* Whether the rendered data holds exactly two products, of different daily
\* velocities.
TwoProductsOfDifferentVelocity ==
  LET v == RenderedVelocity IN
  /\ pc = "done"
  /\ Len(v) = 2
  /\ ~NumEq(v[1].dailyVelocity, v[2].dailyVelocity)

\* C13: with exactly 2 products of different daily velocities the product of
\* rank 1 is classified fast and the product of rank 2 slow; none is medium.
C13_TwoProductsFastAndSlow ==
  TwoProductsOfDifferentVelocity =>
    LET v == RenderedVelocity IN
    /\ v[1].rank = 1 /\ v[1].classification = "fast"
    /\ v[2].rank = 2 /\ v[2].classification = "slow"
    /\ getVelocityDistribution(v).medium = 0

\* What the code does in place of C13: with 2 products the thresholds are
\* Math.ceil(0.66) = 1 and Math.ceil(1.34) = 2, and the product of rank 2 is
\* classified medium.
TwoProductsAreFastAndMedium ==
  Len(RenderedVelocity) = 2 =>
    /\ RenderedVelocity[1].classification = "fast"
    /\ RenderedVelocity[2].classification = "medium"

C13_Witness == TwoProductsOfDifferentVelocity

\* The dates on which a product has a record, and its records.
DatesOfProduct(data, name) ==
  { f.date : f \in { g \in Range(FlatRecords(data)) : g.record.ITNAME = name } }

RecordsOfProduct(data, name) ==
  SelectSeq(RecordsOf(data), LAMBDA r : r.ITNAME = name)

\* C14: for each product calculateProductVelocity reports daysActive equal
\* to the number of distinct dates on which the product has a record (several
\* records, or a PS and an FS batch, of one date count once), at least 1, with
\* dailyVelocity = totalQty / daysActive and weeklyVelocity = 7 * dailyVelocity.
C14_DaysActiveCountsDistinctDates ==
  LET v == RenderedVelocity IN
  \A i \in 1..Len(v) :
    /\ v[i].daysActive = Cardinality(DatesOfProduct(filteredData, v[i].productName))
    /\ v[i].daysActive >= 1
    /\ v[i].totalQty = SumQty(RecordsOfProduct(filteredData, v[i].productName))
    /\ v[i].dailyVelocity.den > 0
    /\ v[i].totalQty * v[i].dailyVelocity.den = v[i].dailyVelocity.num * v[i].daysActive
    /\ NumEq(v[i].weeklyVelocity, Times(v[i].dailyVelocity, 7))
    /\ v[i].weeklyVelocity.num * v[i].daysActive
         = 7 * v[i].totalQty * v[i].weeklyVelocity.den

\* A product with records in a PS and in an FS batch of one date, and a
\* product with records on two dates.
C14_Witness ==
  LET v == RenderedVelocity IN
  /\ pc = "done"
  /\ Len(filteredData) = 2
  /\ filteredData[1].date = filteredData[2].date
  /\ filteredData[1].type # filteredData[2].type
  /\ \E i \in 1..Len(v) :
       /\ v[i].daysActive = 1
       /\ Len(RecordsOfProduct(filteredData, v[i].productName)) >= 3

\* The latest date of a batch list.
LatestDate(data) == allDatesOf(data)[Len(allDatesOf(data))]

\* The batches of a list dated from one day to another.
BatchesDated(data, from, to) ==
  SelectSeq(data, LAMBDA d : from <= d.date /\ d.date <= to)

\* Whether splitDataByPeriod, in a time zone, gives the windows of C15.
WindowsExact(data, periodType, tz) ==
  LET n == periodDaysOf(periodType)
      latest == LatestDate(data)
      split == splitDataByPeriod(data, periodType, tz)
  IN /\ split.current = BatchesDated(data, latest - (n - 1), latest)
     /\ split.previous = BatchesDated(data, latest - (2 * n - 1), latest - n)
     /\ \A i \in 1..Len(split.current) : \A j \in 1..Len(split.previous) :
          split.current[i].date > split.previous[j].date
     /\ (\A i \in 1..Len(data) : data[i].date >= latest - (2 * n - 1))
          => Len(split.current) + Len(split.previous) = Len(data)

\* C15: for every non-empty batch set and period length N (7 for week, 30
\* for month), with latest the maximum date present, splitDataByPeriod returns
\* as current exactly the batches dated in [latest-(N-1), latest] and as
\* previous exactly those dated in [latest-(2N-1), latest-N]: disjoint, with
\* no gap, and covering every batch of a dataset of 2N contiguous days.
C15_SplitWindowsExact ==
  (pc = "done" /\ filteredData # <<>>) =>
    \A periodType \in PeriodTypes : \A tz \in TimeZones :
      WindowsExact(filteredData, periodType, tz)

\* C15 where the browser's clock does not change: the windows are exact in
\* every time zone of one offset.
SplitWindowsExactAtOneOffset ==
  (pc = "done" /\ filteredData # <<>>) =>
    \A periodType \in PeriodTypes :
      \A tz \in { z \in TimeZones : z.before = z.after } :
        WindowsExact(filteredData, periodType, tz)

\* Fourteen sheets of fourteen days running.
C15_Witness ==
  /\ pc = "done"
  /\ Len(filteredData) = 14
  /\ \A k \in 1..14 : filteredData[k].date = LatestDate(filteredData) - 14 + k

\* The changes a render computes: compareVelocityPeriods over the two
\* periods splitDataByPeriod gives for filteredData.
RenderedSplit(periodType, tz) == splitDataByPeriod(filteredData, periodType, tz)

ChangesOf(split) == compareVelocityPeriods(split.current, split.previous)

EntriesFor(changes, name) == SelectSeq(changes, LAMBDA e : e.productName = name)

\* The daily velocity of a product in a period.
VelocityIn(period, name) ==
  LET v == calculateProductVelocity(period) IN
  v[findByName(v, name)].dailyVelocity

\* Whether a predicate holds of the one entry of every product of a set.
EachHasOneEntry(changes, names, Holds(_)) ==
  \A name \in names :
    /\ Len(EntriesFor(changes, name)) = 1
    /\ Holds(EntriesFor(changes, name)[1])

\* C16: every product with records only in the current period yields an
\* entry with changePercent = 100, trend accelerating, classification gainer.
C16_NewProductIsGainer ==
  pc = "done" =>
    \A periodType \in PeriodTypes : \A tz \in TimeZones :
      LET split == RenderedSplit(periodType, tz) IN
      EachHasOneEntry(ChangesOf(split),
                      ItemNamesOf(split.current) \ ItemNamesOf(split.previous),
                      LAMBDA e : /\ NumEq(e.changePercent, Whole(100))
                                 /\ e.trend = "accelerating"
                                 /\ e.classification = "gainer")

\* A product sold only in the current week, next to one sold in both weeks.
C16_Witness ==
  /\ pc = "done"
  /\ LET split == RenderedSplit("week", [before |-> 0, after |-> 0, at |-> 0]) IN
     /\ ItemNamesOf(split.current) \ ItemNamesOf(split.previous) # {}
     /\ ItemNamesOf(split.current) \cap ItemNamesOf(split.previous) # {}

\* C17: every product with records only in the previous period yields an
\* entry with changePercent = -100, trend decelerating, classification loser.
C17_DiscontinuedProductIsLoser ==
  pc = "done" =>
    \A periodType \in PeriodTypes : \A tz \in TimeZones :
      LET split == RenderedSplit(periodType, tz) IN
      EachHasOneEntry(ChangesOf(split),
                      ItemNamesOf(split.previous) \ ItemNamesOf(split.current),
                      LAMBDA e : /\ NumEq(e.changePercent, Whole(0 - 100))
                                 /\ e.trend = "decelerating"
                                 /\ e.classification = "loser")

\* A product sold only in the previous week, in quantity 0.
C17_Witness ==
  /\ pc = "done"
  /\ LET split == RenderedSplit("week", [before |-> 0, after |-> 0, at |-> 0]) IN
     \E name \in ItemNamesOf(split.previous) \ ItemNamesOf(split.current) :
       VelocityIn(split.previous, name).num = 0

\* C18: every product in both periods with the same daily velocity in each,
\* 0 included, yields changePercent = 0 and classification stable.
C18_SameVelocityIsStable ==
  pc = "done" =>
    \A periodType \in PeriodTypes : \A tz \in TimeZones :
      LET split == RenderedSplit(periodType, tz) IN
      EachHasOneEntry(ChangesOf(split),
                      { name \in ItemNamesOf(split.current) \cap ItemNamesOf(split.previous) :
                          NumEq(VelocityIn(split.current, name),
                                VelocityIn(split.previous, name)) },
                      LAMBDA e : /\ NumEq(e.changePercent, Zero)
                                 /\ e.classification = "stable")

\* C18 for the velocities other than 0, which is what the code does.
SameNonzeroVelocityIsStable ==
  pc = "done" =>
    \A periodType \in PeriodTypes : \A tz \in TimeZones :
      LET split == RenderedSplit(periodType, tz) IN
      EachHasOneEntry(ChangesOf(split),
                      { name \in ItemNamesOf(split.current) \cap ItemNamesOf(split.previous) :
                          /\ VelocityIn(split.current, name).num # 0
                          /\ NumEq(VelocityIn(split.current, name),
                                   VelocityIn(split.previous, name)) },
                      LAMBDA e : /\ NumEq(e.changePercent, Zero)
                                 /\ e.trend = "stable"
                                 /\ e.classification = "stable")

\* A product sold in both weeks in quantity 0.
C18_Witness ==
  /\ pc = "done"
  /\ LET split == RenderedSplit("week", [before |-> 0, after |-> 0, at |-> 0]) IN
     \E name \in ItemNamesOf(split.current) \cap ItemNamesOf(split.previous) :
       /\ VelocityIn(split.current, name).num = 0
       /\ VelocityIn(split.previous, name).num = 0

\* C19: a product in both periods whose previous velocity is exactly 0 and
\* whose current velocity is not 0 is reported with changePercent = 0.
C19_ZeroPreviousReportsZero ==
  pc = "done" =>
    \A periodType \in PeriodTypes : \A tz \in TimeZones :
      LET split == RenderedSplit(periodType, tz) IN
      EachHasOneEntry(ChangesOf(split),
                      { name \in ItemNamesOf(split.current) \cap ItemNamesOf(split.previous) :
                          /\ VelocityIn(split.previous, name).num = 0
                          /\ VelocityIn(split.current, name).num # 0 },
                      LAMBDA e : NumEq(e.changePercent, Zero))

\* What the code does in place of C19: such a product takes the branch of
\* the new products and is reported with changePercent = 100 as a gainer.
ZeroPreviousReportsNewProduct ==
  pc = "done" =>
    \A periodType \in PeriodTypes : \A tz \in TimeZones :
      LET split == RenderedSplit(periodType, tz) IN
      EachHasOneEntry(ChangesOf(split),
                      { name \in ItemNamesOf(split.current) \cap ItemNamesOf(split.previous) :
                          VelocityIn(split.previous, name).num = 0 },
                      LAMBDA e : /\ NumEq(e.changePercent, Whole(100))
                                 /\ e.classification = "gainer")

\* A product sold in quantity 0 in the previous week and sold in the current.
C19_Witness ==
  /\ pc = "done"
  /\ LET split == RenderedSplit("week", [before |-> 0, after |-> 0, at |-> 0]) IN
     \E name \in ItemNamesOf(split.current) \cap ItemNamesOf(split.previous) :
       /\ VelocityIn(split.previous, name).num = 0
       /\ VelocityIn(split.current, name).num # 0

\* C20: compareVelocityPeriods returns exactly one VelocityChange for every
\* product name of the current or the previous batch set, and none for any
\* other name.
C20_OneChangePerProduct ==
  pc = "done" =>
    \A periodType \in PeriodTypes : \A tz \in TimeZones :
      LET split == RenderedSplit(periodType, tz)
          changes == ChangesOf(split)
          names == ItemNamesOf(split.current) \cup ItemNamesOf(split.previous)
      IN /\ { changes[i].productName : i \in 1..Len(changes) } = names
         /\ Len(changes) = Cardinality(names)

\* What the code does in place of C20: one change for every product of the
\* current set and for every product of the previous set whose velocity
\* there is not 0.
OneChangePerSoldProduct ==
  pc = "done" =>
    \A periodType \in PeriodTypes : \A tz \in TimeZones :
      LET split == RenderedSplit(periodType, tz)
          changes == ChangesOf(split)
          names == ItemNamesOf(split.current)
                   \cup { name \in ItemNamesOf(split.previous) :
                            VelocityIn(split.previous, name).num # 0 }
      IN /\ { changes[i].productName : i \in 1..Len(changes) } = names
         /\ Len(changes) = Cardinality(names)

\* Products of both weeks, one of them only of the previous week.
C20_Witness ==
  /\ pc = "done"
  /\ LET split == RenderedSplit("week", [before |-> 0, after |-> 0, at |-> 0]) IN
     /\ ItemNamesOf(split.previous) \ ItemNamesOf(split.current) # {}
     /\ ItemNamesOf(split.current) # {}
     /\ Len(ChangesOf(split)) < Cardinality(ItemNamesOf(filteredData))

\* The series the forecast tab is computed from.
RenderedSeries ==
  LET timeSeries == prepareProductTimeSeries(filteredData, 10)
  IN [i \in 1..Len(timeSeries) |->
        [timeSeries[i] EXCEPT !.dailyData = @ \o <<>>]] \o <<>>

ZeroMetrics == [mae |-> Zero, mape |-> Zero, rmse |-> Zero]

\* C21: backtestForecast of a series of fewer than testDays + 7 points returns
\* exactly mae 0, mape 0, rmse 0 and testPeriodDays 0; of a series of at least
\* testDays + 7 points it returns testPeriodDays = testDays; validateForecasts
\* is that backtest over 7 test days.
C21_BacktestNeedsEnoughHistory ==
  pc = "done" =>
    LET series == RenderedSeries IN
    /\ \A i \in 1..Len(series) : \A testDays \in {1, 7, 8} :
         LET result == backtestForecast(series[i], testDays) IN
         IF Len(series[i].dailyData) < testDays + 7
         THEN result.metrics = ZeroMetrics /\ result.testPeriodDays = 0
         ELSE result.testPeriodDays = testDays
    /\ validateForecasts(filteredData, 10) =
         [i \in 1..Len(series) |-> backtestForecast(series[i], 7)]

\* Fourteen days: too few for 8 test days, enough for 7, with an error to report.
C21_Witness ==
  /\ pc = "done"
  /\ LET series == RenderedSeries IN
     /\ Len(series) = 1
     /\ Len(series[1].dailyData) = 14
     /\ backtestForecast(series[1], 8).metrics = ZeroMetrics
     /\ backtestForecast(series[1], 8).testPeriodDays = 0
     /\ backtestForecast(series[1], 7).testPeriodDays = 7
     /\ backtestForecast(series[1], 7).metrics.mae.num > 0

IsConstantSeries(values, v) == \A i \in 1..Len(values) : values[i] = v

C23_SeriesCoverTopProducts ==
  pc = "done" =>
    \A N \in {1, 2, 10} :
      LET series == prepareProductTimeSeries(filteredData, N)
          products == aggregateByProduct(filteredData)
          dates == allDatesOf(filteredData)
          taken == { series[i].productName : i \in 1..Len(series) }
          totalOf(name) ==
            (CHOOSE e \in Range(products) : e.productName = name).totalAmount
          flat == FlatRecords(filteredData)
      IN /\ Len(series) = Min2(N, Len(products))
         /\ Cardinality(taken) = Len(series)
         /\ taken \subseteq { products[j].productName : j \in 1..Len(products) }
         /\ \A j \in 1..Len(products) :
              products[j].productName \notin taken =>
                \A name \in taken : products[j].totalAmount <= totalOf(name)
         /\ \A d \in 1..(Len(dates) - 1) : dates[d] < dates[d + 1]
         /\ Range(dates) = { filteredData[b].date : b \in 1..Len(filteredData) }
         /\ \A i \in 1..Len(series) :
              /\ [d \in 1..Len(series[i].dailyData) |-> series[i].dailyData[d].date] = dates
              /\ \A d \in 1..Len(dates) :
                   (\A f \in Range(flat) :
                      ~(f.date = dates[d] /\ f.record.ITNAME = series[i].productName))
                     => (series[i].dailyData[d].quantity = 0
                           /\ series[i].dailyData[d].revenue = 0)
              /\ SumSeq(revenuesOf(series[i].dailyData)) = totalOf(series[i].productName)

\* Two products of different revenue and N = 1: the series is the larger
\* product's, two records of one day added up and the other day filled with 0.
C23_Witness ==
  /\ Rendered
  /\ Len(aggregateByProduct(filteredData)) = 2
  /\ LET series == prepareProductTimeSeries(filteredData, 1) IN
     /\ Len(series) = 1
     /\ series[1].productName = aggregateByProduct(filteredData)[1].productName
     /\ aggregateByProduct(filteredData)[2].totalAmount
          < aggregateByProduct(filteredData)[1].totalAmount
     /\ Len(series[1].dailyData) = 2
     /\ \E d \in 1..2 : series[1].dailyData[d].revenue = 0

\* The calendar days from the first to the last date of a batch list that are
\* not a date of the list.
CalendarDaysMissing(data) ==
  LET dates == allDatesOf(data)
  IN IF dates = <<>> THEN {}
     ELSE { day \in dates[1]..dates[Len(dates)] : day \notin Range(dates) }

\* The quality of missing days among a number of days.
QualityOfFraction(missing, days) ==
  IF 100 * missing < 5 * days THEN "excellent"
  ELSE IF 100 * missing < 15 * days THEN "good"
  ELSE IF 100 * missing < 30 * days THEN "fair"
  ELSE "poor"

\* C24: the dataQuality of generateForecastSummary follows the fraction of the
\* calendar days from the first to the last observed date that are missing:
\* below 5% excellent, below 15% good, below 30% fair, otherwise poor.
C24_QualityFromMissingFraction ==
  (pc = "done" /\ RenderedSeries # <<>>) =>
    \A tz \in TimeZones :
      LET dates == allDatesOf(filteredData)
      IN summaryMetadataOf(filteredData, tz).dataQuality
           = QualityOfFraction(Cardinality(CalendarDaysMissing(filteredData)),
                               dates[Len(dates)] - dates[1] + 1)

\* What the code computes where the offset of the time zone never changes: the
\* missing days are counted against the observed dates, not the calendar days.
QualityFromMissingOverObserved ==
  (pc = "done" /\ RenderedSeries # <<>>) =>
    \A tz \in { z \in TimeZones : z.before = z.after } :
      LET metadata == summaryMetadataOf(filteredData, tz)
      IN /\ Range(metadata.missingDates) = CalendarDaysMissing(filteredData)
         /\ Len(metadata.missingDates) = Cardinality(CalendarDaysMissing(filteredData))
         /\ metadata.dataQuality
              = QualityOfFraction(Cardinality(CalendarDaysMissing(filteredData)),
                                  Len(allDatesOf(filteredData)))

\* Three observed dates and one missing day between them: a quarter of the
\* calendar days is missing, and the summary in UTC reads poor.
C24_Witness ==
  /\ pc = "done"
  /\ RenderedSeries # <<>>
  /\ Len(allDatesOf(filteredData)) = 3
  /\ Cardinality(CalendarDaysMissing(filteredData)) = 1
  /\ summaryMetadataOf(filteredData, [before |-> 0, after |-> 0, at |-> 0]).dataQuality
       = "poor"

\* C25: for a product in both periods whose previous velocity is above 0, the
\* trend is accelerating iff changePercent > 5, decelerating iff
\* changePercent < -5 and stable otherwise, and the classification is gainer
\* iff changePercent > 15, loser iff changePercent < -15 and stable otherwise;
\* in every entry a gainer is accelerating, a loser is decelerating, and a
\* stable trend has the classification stable.
C25_TrendAndClassThresholds ==
  pc = "done" =>
    \A periodType \in PeriodTypes : \A tz \in TimeZones :
      LET split == RenderedSplit(periodType, tz)
          changes == ChangesOf(split)
          both == ItemNamesOf(split.current) \cap ItemNamesOf(split.previous)
      IN \A i \in 1..Len(changes) :
           LET e == changes[i] IN
           /\ (e.productName \in both /\ VelocityIn(split.previous, e.productName).num > 0) =>
                /\ NumEq(e.changePercent,
                         Times(Quotient(Minus(VelocityIn(split.current, e.productName),
                                              VelocityIn(split.previous, e.productName)),
                                        VelocityIn(split.previous, e.productName)), 100))
                /\ e.trend = "accelerating" <=> NumLess(Whole(5), e.changePercent)
                /\ e.trend = "decelerating" <=> NumLess(e.changePercent, Whole(0 - 5))
                /\ e.trend \in {"accelerating", "decelerating", "stable"}
                /\ e.classification = "gainer" <=> NumLess(Whole(15), e.changePercent)
                /\ e.classification = "loser" <=> NumLess(e.changePercent, Whole(0 - 15))
                /\ e.classification \in {"gainer", "loser", "stable"}
           /\ e.classification = "gainer" => e.trend = "accelerating"
           /\ e.classification = "loser" => e.trend = "decelerating"
           /\ e.trend = "stable" => e.classification = "stable"

\* A product whose velocity went from 20 to 23 a day, up 15%: accelerating,
\* and not a gainer.
C25_Witness ==
  /\ pc = "done"
  /\ LET split == RenderedSplit("week", [before |-> 0, after |-> 0, at |-> 0])
         changes == ChangesOf(split)
     IN /\ Len(changes) = 1
        /\ ItemNamesOf(split.previous) = ItemNamesOf(split.current)
        /\ NumEq(changes[1].changePercent, Whole(15))
        /\ changes[1].trend = "accelerating"
        /\ changes[1].classification = "stable"

\* C28: under any interleaving of callers of getCompanyMapper,
\* loadAllCompanyMappings is started at most once and every mapper a caller
\* receives is fully loaded: no caller obtains the singleton, or enriches
\* records with it, while a company file is still being loaded.
C28_CallersReceiveLoadedMapper ==
  /\ pc \notin {"mount", "awaitMapper"} => companyPending = {}
  /\ otherCaller.pc # "idle" => otherCaller.mapperPending = {}
  /\ otherCaller.pc = "enriched" => otherCaller.enrichPending = {}

\* The company loads start only in a step that finds no instance, which no
\* later step does: loadAllCompanyMappings is started at most once.
LoadsStartOnlyWithoutInstance ==
  [][companyPending' \subseteq companyPending \/ companyMapperInstance = <<>>]_vars

\* The second caller enriched while a company file was in flight and left
\* without company a record that the mapper, once loaded, resolves.
C28_Witness ==
  /\ otherCaller.pc = "enriched"
  /\ otherCaller.enrichPending # {}
  /\ companyPending = {}
  /\ otherCaller.enriched[1].company = Undefined
  /\ getCompanyForProduct(companyMapperInstance[1], otherCaller.enriched[1].ITNAME)
       # Undefined

\* The percent error of a test point of revenue above 0 against a forecast.
PercentErrorOf(actual, forecast) ==
  LET diff == Reduce(Minus(Whole(actual), forecast))
  IN Reduce([num |-> 100 * Abs(diff.num), den |-> diff.den * actual])

\* C26: in backtestForecast of a series with enough history, every test point
\* is compared against one forecast, the weighted average of the last 7
\* training revenues, whatever the revenues of the test period; the mape is
\* the mean of the percent errors of the test points of revenue above 0, and 0
\* when there is none.
C26_BacktestForecastIsStatic ==
  pc = "done" =>
    LET series == RenderedSeries IN
    \A i \in 1..Len(series) :
      Len(series[i].dailyData) >= 14 =>
        LET revenues == revenuesOf(series[i].dailyData)
            n == Len(revenues)
            training == SubSeq(revenues, 1, n - 7)
            fixed == weightedAvgOf(SubSeq(training, Len(training) - 6, Len(training)))
            points == backtestPoints(series[i], 7)
            counted == SelectSeq([k \in 1..7 |-> k], LAMBDA k : revenues[n - 7 + k] > 0)
            mean == IF counted = <<>> THEN Zero
                    ELSE Reduce(Quotient(SumNum([j \in 1..Len(counted) |->
                                                   PercentErrorOf(revenues[n - 7 + counted[j]],
                                                                  fixed)]),
                                         Whole(Len(counted))))
        IN /\ Len(points) = 7
           /\ \A k \in 1..7 :
                /\ points[k].actual = revenues[n - 7 + k]
                /\ NumEq(points[k].forecast, fixed)
           /\ backtestForecast(series[i], 7).metrics.mape = Round2(mean)

\* A test period with days of no revenue and days of revenue, a forecast
\* above 0 and a mape above 0.
C26_Witness ==
  /\ pc = "done"
  /\ LET series == RenderedSeries IN
     /\ Len(series) = 1
     /\ Len(series[1].dailyData) = 15
     /\ LET points == backtestPoints(series[1], 7) IN
        /\ \E k \in 1..7 : points[k].actual = 0
        /\ \E k \in 1..7 : points[k].actual > 0
        /\ points[1].forecast.num > 0
        /\ \E k \in 1..7 : ~NumEq(points[k].forecast, Whole(points[k].actual))
     /\ backtestForecast(series[1], 7).metrics.mape.num > 0

IsConfidence(c) == c \in 0..100

\* C27: every confidence the forecasting engine produces for a series of
\* values that are not negative is an integer in 0..100: that of the weighted
\* moving average at each window, of the ensemble, of a product's one-day and
\* seven-day forecast, and the two average confidences of the summary.
C27_ConfidenceInRange ==
  pc = "done" =>
    LET series == RenderedSeries
        productForecasts == [i \in 1..Len(series) |-> forecastProduct(series[i])] \o <<>>
        totalForecast == totalForecastOf(productForecasts)
    IN /\ \A i \in 1..Len(series) :
            /\ \A values \in {revenuesOf(series[i].dailyData),
                               [d \in 1..Len(series[i].dailyData) |->
                                  series[i].dailyData[d].quantity]} :
                 /\ \A windowSize \in {7, 14, 30} :
                      IsConfidence(calculateMovingAverage(values, windowSize).confidence)
                 /\ IsConfidence(ensembleMovingAverage(values).confidence)
            /\ IsConfidence(productForecasts[i].oneDayForecast.confidence)
            /\ IsConfidence(productForecasts[i].sevenDayForecast.confidence)
       /\ series # <<>> =>
            /\ IsConfidence(totalForecast.oneDay.avgConfidence)
            /\ IsConfidence(totalForecast.sevenDay.avgConfidence)

\* A series whose deviation is larger than its mean, so that the variability
\* score is held at 0, with too few days to fill a window.
C27_Witness ==
  /\ pc = "done"
  /\ LET series == RenderedSeries IN
     /\ Len(series) = 1
     /\ Len(series[1].dailyData) = 4
     /\ LET revenues == revenuesOf(series[1].dailyData) IN
        /\ cvSquaredOf(revenues).num > cvSquaredOf(revenues).den
        /\ SumSeq(revenues) > 0
        /\ calculateMovingAverage(revenues, 7).confidence = 29
        /\ calculateMovingAverage(revenues, 30).confidence = 7
     /\ forecastProduct(series[1]).oneDayForecast.confidence = 29

\* The companies whose product list in aggregateByCompany names a product.
CompaniesListing(companies, name) ==
  { companies[i].companyName :
      i \in { c \in 1..Len(companies) :
                \E j \in 1..Len(companies[c].products) :
                  companies[c].products[j].productName = name } }

\* C29: in a batch list enriched from records that carried no company, each
\* product name is listed under exactly one company of aggregateByCompany, the
\* productCounts sum to the number of aggregateByProduct entries, and the
\* company aggregateByProductWithCompany, calculateProductVelocity and
\* prepareProductTimeSeries show for the product is that company, absent
\* exactly when the product is listed under "Unknown".
C29_OneCompanyPerProduct ==
  pc = "done" =>
    \A data \in {salesData, filteredData} :
      LET companies == aggregateByCompany(data)
          companyOf(name) ==
            LET listing == CHOOSE c \in CompaniesListing(companies, name) : TRUE
            IN IF listing = "Unknown" THEN Undefined ELSE listing
          Shown(entries) ==
            \A e \in Range(entries) : e.company = companyOf(e.productName)
      IN /\ \A name \in ItemNamesOf(data) :
              Cardinality(CompaniesListing(companies, name)) = 1
         /\ SumField(companies, LAMBDA c : c.productCount)
              = Len(aggregateByProduct(data))
         /\ Shown(aggregateByProductWithCompany(data))
         /\ Shown(calculateProductVelocity(data))
         /\ Shown(prepareProductTimeSeries(data, 10))
         /\ { e.productName : e \in Range(aggregateByProductWithCompany(data)) }
              = ItemNamesOf(data)

\* A product sold in both files that a company file names, and one that none
\* names.
C29_Witness ==
  /\ Rendered
  /\ Len(filteredData) = 2
  /\ Len(filteredData[1].records) = 1
  /\ Len(filteredData[2].records) = 1
  /\ filteredData[1].records[1].company # Undefined
  /\ filteredData[1].records[1].ITNAME = filteredData[2].records[1].ITNAME
  /\ Len(aggregateByCompany(filteredData)) = 1
  /\ aggregateByCompany(filteredData)[1].productCount = 1

MinOf(values) == CHOOSE x \in Range(values) : \A y \in Range(values) : x <= y

MaxOf(values) == CHOOSE x \in Range(values) : \A y \in Range(values) : y <= x

\* lo <= x <= hi for numbers lo, x and hi.
NumBetween(lo, x, hi) == ~NumLess(x, lo) /\ ~NumLess(hi, x)

\* The last min(n, length) values of a series.
LastValues(values, n) ==
  SubSeq(values, IF n < Len(values) THEN Len(values) - n + 1 ELSE 1, Len(values))

====
